---- MODULE Spec2Model ----
(***************************************************************************)
(* A model of the persistence core of DevHub (src/pms/pms_core.py): the    *)
(* sentinel-file lock of _with_file_lock, the temp-file-and-rename write   *)
(* of _atomic_write, load/save, the TransactionManager of PMSCore and the  *)
(* blueprint header stamping and validation.                               *)
(*                                                                         *)
(* Three specifications share the variables:                               *)
(*   Spec     processes racing save() and load() on one target path;       *)
(*   SpecTxn  one PMSCore client using PMSCore.save and the                *)
(*            TransactionManager calls on one scope;                       *)
(*   SpecBP   save / external edit / load of one blueprint.md file, on     *)
(*            texts drawn from a bounded set.                              *)
(***************************************************************************)
EXTENDS Integers, Sequences, FiniteSets, TLC

VARIABLES
    pc,          \* [Procs -> position of the process in the code]
    mode,        \* [Procs -> "plain" | "txn"]: who called save(): the caller or PMSCore.save
    payload,     \* [Procs -> the bytes the current save() writes]
    exc,         \* [Procs -> the exception travelling up the stack, "none" if none]
    result,      \* [Procs -> how the last finished call ended]
    loaded,      \* [Procs -> what the last load() read from the target]
    target,      \* the target file: Absent or its bytes
    tmpfile,     \* [Procs -> the NamedTemporaryFile of the process: Absent or its bytes]
    tmpPath,     \* [Procs -> whether the local tmp_path of _atomic_write is set]
    tmpOrphan,   \* whether the temp directory holds a file no running _atomic_write owns
    lockEntry,   \* the inode the sentinel path names, NoInode when the path does not exist
    flockHolder, \* [Inodes -> the process whose open file holds flock on the inode]
    fd,          \* [Procs -> the inode of the process's open lock_file, NoInode if None]
    zombie,      \* [Procs -> the inode of the lock_file a suspended generator of an
                 \*  ended save() of the process keeps open, NoInode if there is none]
    txlog,       \* TransactionManager.transaction_log
    backup,      \* [transaction id -> the backup file: Absent or its bytes]
    cur,         \* [Procs -> transaction_id of the running PMSCore.save / commit_transaction]
    rb,          \* [Procs -> frame of the running rollback_transaction]
    bpInput,     \* SpecBP: the text the program hands to save(), or finds on disk
    bpFile,      \* SpecBP: the blueprint.md file: NoFile or its text
    bpSaved,     \* SpecBP: whether save() wrote the file
    bpTampered,  \* SpecBP: whether the body was edited after save() wrote the file
    bpResult,    \* SpecBP: the outcome of the last load() of the file
    clFile,      \* SpecCL: docs/blueprint_changes.csv: NoCsv or its rows
    clPc,        \* SpecCL: [Savers -> position in save() of a blueprint.md]
    clNext,      \* SpecCL: [Savers -> the local next_id of _append_blueprint_change]
    clCount,     \* SpecCL: [Savers -> appends the process has completed]
    clSaved,     \* SpecCL: [Savers -> saves of the process that replaced its blueprint.md]
    ixFile,      \* SpecIX: what memory/memory_index.yaml holds
    ixCache,     \* SpecIX: the global _memory_index_cache
    ixArg,       \* SpecIX: the arguments of the call under way
    ixRet,       \* SpecIX: what the last call returned or raised
    daConfig,    \* SpecDAS: what agents/<agent_id>.yaml holds
    daCache,     \* SpecDAS: the agent's entry of DASEnforcer.permissions_cache
    daCall,      \* SpecDAS: the safe_pms_call under way, with its outcome
    daTarget,    \* SpecDAS: [scope -> what the scope's target file holds]
    pub,         \* SpecEV: the EventPublisher (subscribers, history, stats, _shutdown)
    subs,        \* SpecEV: [subscriber -> its EventSubscriber.subscriptions]
    active,      \* SpecEV: [subscriber -> its EventSubscriber.is_active]
    evCall,      \* SpecEV: the last call on the publisher, with what it returned
    permits,     \* SpecSEM: the permits EventPublisher._semaphore has left
    task         \* SpecSEM: [publish call -> where the coroutine stands]

lockVars == <<lockEntry, flockHolder, fd, zombie>>
fileVars == <<target, tmpfile, tmpPath, tmpOrphan>>
txnVars  == <<txlog, backup, cur, rb>>
bpVars   == <<bpInput, bpFile, bpSaved, bpTampered, bpResult>>
clVars   == <<clFile, clPc, clNext, clCount, clSaved>>
ixVars   == <<ixFile, ixCache, ixArg, ixRet>>
dasVars  == <<daConfig, daCache, daCall, daTarget>>
evVars   == <<pub, subs, active, evCall, permits, task>>
procVars == <<pc, mode, payload, exc, result, loaded>>
vars     == <<procVars, lockVars, fileVars, txnVars, bpVars, clVars, ixVars, dasVars, evVars>>

(***************************************************************************)
(* Values                                                                  *)
(***************************************************************************)
Procs    == {"w1", "w2", "r1"}
Writers  == {"w1", "w2"}
Readers  == {"r1"}
TxnProcs == {"w1"}

Absent   == <<"<absent>">>
NoInode  == 0
Inodes   == 1 .. (2 * Cardinality(Writers) + 1)
NoProc   == "none"

\* Whole documents.  "!" stands for a byte sequence yaml.safe_load rejects.
DocA     == <<"a", "a">>
DocB     == <<"b", "b">>
DocC     == <<"c", "c">>
DocBad   == <<"!", "!">>

SavePayloads == {DocB, DocC}

\* bound of the model: begin_transaction is called at most MaxTxns times
MaxTxns  == 2
TxnIds   == 1 .. MaxTxns

\* no rollback_transaction is running
NoFrame  == [txn |-> 0, ret |-> "none", wasActive |-> FALSE, entry |-> Absent]

\* the first n bytes of s
Prefix(s, n) == SubSeq(s, 1, n)

(***************************************************************************)
(* _with_file_lock (pms_core.py:73-120), on a platform with fcntl          *)
(***************************************************************************)
\* an inode no directory entry and no open file refers to
NewInode ==
    LET FreeInodes == {i \in Inodes : i # lockEntry /\ \A q \in Procs : fd[q] # i /\ zombie[q] # i}
    IN  CHOOSE i \in FreeInodes : \A j \in FreeInodes : i <= j

\* positions at which the body of the with-block of save() runs
InLockedSection == {"aw_create", "aw_write", "aw_check", "aw_replace"}

\* the exception class of an error, without its message
ErrorClass(e) == IF e \in {"LockTimeoutError", "RuntimeError"} THEN e ELSE "PMSCoreError"

\* save() (lines 495-519) ends: it returns (e = "none") or raises e, to the program
\* or, when PMSCore.save called it (line 213), to lines 214 and 217
SaveEnds(p, e) ==
    IF mode[p] = "plain"
       THEN /\ result' = [result EXCEPT ![p] = IF e = "none" THEN "ok" ELSE ErrorClass(e)]
            /\ exc' = [exc EXCEPT ![p] = "none"]
            /\ payload' = [payload EXCEPT ![p] = <<>>]
            /\ pc' = [pc EXCEPT ![p] = "idle"]
       ELSE /\ exc' = [exc EXCEPT ![p] = e]
            /\ pc' = [pc EXCEPT ![p] = IF e = "none" THEN "cm_validate" ELSE "sx_except"]
            /\ UNCHANGED <<result, payload>>

\* line 85: lock_path.open('w') opens the file the path names, creating it if absent
LockOpen(p) ==
    /\ pc[p] = "lk_open"
    /\ IF lockEntry # NoInode
          THEN /\ fd' = [fd EXCEPT ![p] = lockEntry]
               /\ UNCHANGED lockEntry
          ELSE /\ fd' = [fd EXCEPT ![p] = NewInode]
               /\ lockEntry' = NewInode
    /\ pc' = [pc EXCEPT ![p] = "lk_flock"]
    /\ UNCHANGED <<mode, payload, exc, result, loaded, flockHolder, zombie, fileVars, txnVars, bpVars, clVars, ixVars, dasVars, evVars>>

\* line 85 raising OSError (lock_file stays None), lines 102-108
LockOpenFail(p) ==
    /\ pc[p] = "lk_open"
    /\ pc' = [pc EXCEPT ![p] = "lk_sleep"]
    /\ UNCHANGED <<mode, payload, exc, result, loaded, lockVars, fileVars, txnVars, bpVars, clVars, ixVars, dasVars, evVars>>

\* line 89: flock(LOCK_EX | LOCK_NB) succeeds; line 99 yields to the body
LockAcquire(p) ==
    /\ pc[p] = "lk_flock"
    /\ exc[p] = "none"
    /\ flockHolder[fd[p]] = NoProc
    /\ flockHolder' = [flockHolder EXCEPT ![fd[p]] = p]
    /\ pc' = [pc EXCEPT ![p] = "aw_create"]
    /\ UNCHANGED <<mode, payload, exc, result, loaded, lockEntry, fd, zombie, fileVars, txnVars, bpVars, clVars, ixVars, dasVars, evVars>>

\* LockBusy with the body entered although the flock was refused
LockBusy_Proceed(p) ==
    /\ pc[p] = "lk_flock"
    /\ flockHolder[fd[p]] # NoProc
    /\ pc' = [pc EXCEPT ![p] = "aw_create"]
    /\ UNCHANGED <<mode, payload, exc, result, loaded, lockVars, fileVars, txnVars, bpVars, clVars, ixVars, dasVars, evVars>>

\* line 89 raising BlockingIOError; lines 102-108 close lock_file and sleep
LockBusy(p) ==
    /\ pc[p] = "lk_flock"
    /\ flockHolder[fd[p]] # NoProc
    /\ fd' = [fd EXCEPT ![p] = NoInode]
    /\ pc' = [pc EXCEPT ![p] = "lk_sleep"]
    /\ UNCHANGED <<mode, payload, exc, result, loaded, lockEntry, flockHolder, zombie, fileVars, txnVars, bpVars, clVars, ixVars, dasVars, evVars>>

\* line 83: the loop condition still holds after the sleep
LockRetry(p) ==
    /\ pc[p] = "lk_sleep"
    /\ pc' = [pc EXCEPT ![p] = "lk_open"]
    /\ UNCHANGED <<mode, payload, exc, result, loaded, lockVars, fileVars, txnVars, bpVars, clVars, ixVars, dasVars, evVars>>

\* lines 83, 111: the timeout elapsed; the finally block (113-120) finds lock_file
\* None and unlinks the sentinel path
LockTimeout(p) ==
    /\ pc[p] = "lk_sleep"
    /\ lockEntry' = NoInode
    /\ SaveEnds(p, "LockTimeoutError")
    /\ UNCHANGED <<mode, loaded, flockHolder, fd, zombie, fileVars, txnVars, bpVars, clVars, ixVars, dasVars, evVars>>

\* lines 114-115: lock_file.close() drops the flock the open file held
LockClose(p) ==
    /\ pc[p] = "lk_close"
    /\ flockHolder' = [flockHolder EXCEPT ![fd[p]] = IF @ = p THEN NoProc ELSE @]
    /\ fd' = [fd EXCEPT ![p] = NoInode]
    /\ pc' = [pc EXCEPT ![p] = "lk_unlink"]
    /\ UNCHANGED <<mode, payload, exc, result, loaded, lockEntry, zombie, fileVars, txnVars, bpVars, clVars, ixVars, dasVars, evVars>>

\* lines 117-120: lock_path.unlink(), FileNotFoundError ignored; the with-block of
\* save() (line 513) is left and save() ends
LockUnlink(p) ==
    /\ pc[p] = "lk_unlink"
    /\ lockEntry' = NoInode
    /\ SaveEnds(p, exc[p])
    /\ UNCHANGED <<mode, loaded, flockHolder, fd, zombie, fileVars, txnVars, bpVars, clVars, ixVars, dasVars, evVars>>

\* lines 94-97, on a platform with neither fcntl nor msvcrt: lock_path.exists()
\* is true and BlockingIOError is raised; lines 102-108 close lock_file and sleep
FbExists(p) ==
    /\ pc[p] = "lk_flock"
    /\ lockEntry # NoInode
    /\ fd' = [fd EXCEPT ![p] = NoInode]
    /\ pc' = [pc EXCEPT ![p] = "lk_sleep"]
    /\ UNCHANGED <<mode, payload, exc, result, loaded, lockEntry, flockHolder, zombie, fileVars, txnVars, bpVars, clVars, ixVars, dasVars, evVars>>

\* lines 94-99 on such a platform: the path the process opened at line 85 is
\* gone again, nothing is raised and line 99 yields to the body
FbAcquire(p) ==
    /\ pc[p] = "lk_flock"
    /\ lockEntry = NoInode
    /\ pc' = [pc EXCEPT ![p] = "aw_create"]
    /\ UNCHANGED <<mode, payload, exc, result, loaded, lockVars, fileVars, txnVars, bpVars, clVars, ixVars, dasVars, evVars>>

(***************************************************************************)
(* _atomic_write (pms_core.py:126-168)                                     *)
(***************************************************************************)
\* lines 163-168: the PMSCoreError an OSError is turned into
Classify(errno) ==
    CASE errno = "ENOSPC" -> "PMSCoreError: Disk full"
      [] errno = "EACCES" -> "PMSCoreError: Permission denied"
      [] OTHER            -> "PMSCoreError: Failed to write"

Errnos == {"ENOSPC", "EACCES", "EIO"}

\* lines 131-140: mkdir of the temp or target directory refused
AwMkdirFail(p) ==
    /\ pc[p] = "aw_create"
    /\ exc' = [exc EXCEPT ![p] = "PMSCoreError: Cannot create directory"]
    /\ pc' = [pc EXCEPT ![p] = "lk_close"]
    /\ UNCHANGED <<mode, payload, result, loaded, lockVars, fileVars, txnVars, bpVars, clVars, ixVars, dasVars, evVars>>

\* line 144: NamedTemporaryFile(delete=False, dir=tmp_dir) creates an empty file
AwCreate(p) ==
    /\ pc[p] = "aw_create"
    /\ tmpfile' = [tmpfile EXCEPT ![p] = <<>>]
    /\ pc' = [pc EXCEPT ![p] = "aw_write"]
    /\ UNCHANGED <<mode, payload, exc, result, loaded, lockVars, target, tmpPath, tmpOrphan, txnVars, bpVars, clVars, ixVars, dasVars, evVars>>

\* line 144 raising OSError: no file, tmp_path None, lines 155-168
AwCreateFail(p) ==
    /\ pc[p] = "aw_create"
    /\ \E e \in Errnos : exc' = [exc EXCEPT ![p] = Classify(e)]
    /\ pc' = [pc EXCEPT ![p] = "lk_close"]
    /\ UNCHANGED <<mode, payload, result, loaded, lockVars, fileVars, txnVars, bpVars, clVars, ixVars, dasVars, evVars>>

\* AwWrite with the data written to the target path itself instead of the temporary file
AwWrite_InPlace(p) ==
    /\ pc[p] = "aw_write"
    /\ \E n \in (Len(tmpfile[p]) + 1) .. Len(payload[p]) :
          /\ tmpfile' = [tmpfile EXCEPT ![p] = Prefix(payload[p], n)]
          /\ target' = Prefix(payload[p], n)
          /\ IF n = Len(payload[p])
                THEN /\ tmpPath' = [tmpPath EXCEPT ![p] = TRUE]
                     /\ pc' = [pc EXCEPT ![p] = "aw_check"]
                ELSE UNCHANGED <<tmpPath, pc>>
    /\ UNCHANGED <<mode, payload, exc, result, loaded, lockVars, tmpOrphan, txnVars, bpVars, clVars, ixVars, dasVars, evVars>>

\* lines 145-146: fh.write(data) reaches the temporary file in one or more writes;
\* after the last one the with-block closes the file and tmp_path is set
AwWrite(p) ==
    /\ pc[p] = "aw_write"
    /\ \E n \in (Len(tmpfile[p]) + 1) .. Len(payload[p]) :
          /\ tmpfile' = [tmpfile EXCEPT ![p] = Prefix(payload[p], n)]
          /\ IF n = Len(payload[p])
                THEN /\ tmpPath' = [tmpPath EXCEPT ![p] = TRUE]
                     /\ pc' = [pc EXCEPT ![p] = "aw_check"]
                ELSE UNCHANGED <<tmpPath, pc>>
    /\ UNCHANGED <<mode, payload, exc, result, loaded, lockVars, target, tmpOrphan, txnVars, bpVars, clVars, ixVars, dasVars, evVars>>

\* line 145 raising OSError: tmp_path is still None, so line 157 removes nothing
\* and the temporary file stays in the temp directory
AwWriteFail(p) ==
    /\ pc[p] = "aw_write"
    /\ \E e \in Errnos : exc' = [exc EXCEPT ![p] = Classify(e)]
    /\ tmpfile' = [tmpfile EXCEPT ![p] = Absent]
    /\ tmpOrphan' = TRUE
    /\ pc' = [pc EXCEPT ![p] = "lk_close"]
    /\ UNCHANGED <<mode, payload, result, loaded, lockVars, target, tmpPath, txnVars, bpVars, clVars, ixVars, dasVars, evVars>>

\* lines 149-150 not raising
AwCheckOk(p) ==
    /\ pc[p] = "aw_check"
    /\ pc' = [pc EXCEPT ![p] = "aw_replace"]
    /\ UNCHANGED <<mode, payload, exc, result, loaded, lockVars, fileVars, txnVars, bpVars, clVars, ixVars, dasVars, evVars>>

\* lines 149-150: the target exists and is not writable; lines 157-161 remove the
\* temporary file
AwCheckDenied(p) ==
    /\ pc[p] = "aw_check"
    /\ target # Absent
    /\ tmpfile' = [tmpfile EXCEPT ![p] = Absent]
    /\ tmpPath' = [tmpPath EXCEPT ![p] = FALSE]
    /\ exc' = [exc EXCEPT ![p] = Classify("EACCES")]
    /\ pc' = [pc EXCEPT ![p] = "lk_close"]
    /\ UNCHANGED <<mode, payload, result, loaded, lockVars, target, tmpOrphan, txnVars, bpVars, clVars, ixVars, dasVars, evVars>>

\* AwReplace with a copy that overwrites only the first chunk of an existing target
AwReplace_FirstChunkOnly(p) ==
    /\ pc[p] = "aw_replace"
    /\ target' = IF target = Absent \/ Len(target) < 2 \/ Len(tmpfile[p]) < 1
                     THEN tmpfile[p]
                     ELSE <<tmpfile[p][1]>> \o Tail(target)
    /\ tmpfile' = [tmpfile EXCEPT ![p] = Absent]
    /\ tmpPath' = [tmpPath EXCEPT ![p] = FALSE]
    /\ pc' = [pc EXCEPT ![p] = "lk_close"]
    /\ UNCHANGED <<mode, payload, exc, result, loaded, lockVars, tmpOrphan, txnVars, bpVars, clVars, ixVars, dasVars, evVars>>

\* line 153: os.replace(tmp_path, target) makes the target name the temporary file
AwReplace(p) ==
    /\ pc[p] = "aw_replace"
    /\ target' = tmpfile[p]
    /\ tmpfile' = [tmpfile EXCEPT ![p] = Absent]
    /\ tmpPath' = [tmpPath EXCEPT ![p] = FALSE]
    /\ pc' = [pc EXCEPT ![p] = "lk_close"]
    /\ UNCHANGED <<mode, payload, exc, result, loaded, lockVars, tmpOrphan, txnVars, bpVars, clVars, ixVars, dasVars, evVars>>

\* AwReplaceFail with a rename that removes the old target before it fails
AwReplaceFail_TargetLost(p) ==
    /\ pc[p] = "aw_replace"
    /\ target' = Absent
    /\ tmpfile' = [tmpfile EXCEPT ![p] = Absent]
    /\ tmpPath' = [tmpPath EXCEPT ![p] = FALSE]
    /\ \E e \in Errnos : exc' = [exc EXCEPT ![p] = Classify(e)]
    /\ pc' = [pc EXCEPT ![p] = "lk_close"]
    /\ UNCHANGED <<mode, payload, result, loaded, lockVars, tmpOrphan, txnVars, bpVars, clVars, ixVars, dasVars, evVars>>

\* line 153 raising OSError; lines 157-161 remove the temporary file
AwReplaceFail(p) ==
    /\ pc[p] = "aw_replace"
    /\ tmpfile' = [tmpfile EXCEPT ![p] = Absent]
    /\ tmpPath' = [tmpPath EXCEPT ![p] = FALSE]
    /\ \E e \in Errnos : exc' = [exc EXCEPT ![p] = Classify(e)]
    /\ pc' = [pc EXCEPT ![p] = "lk_close"]
    /\ UNCHANGED <<mode, payload, result, loaded, lockVars, target, tmpOrphan, txnVars, bpVars, clVars, ixVars, dasVars, evVars>>

\* lines 132 and 138: mkdir raising an OSError that is no PermissionError passes
\* the except clauses of 133 and 139 and leaves _atomic_write as it is; thrown into
\* the generator at line 99 it is caught at line 102, which closes lock_file,
\* sleeps and goes on with the loop
AwMkdirOSError(p) ==
    /\ pc[p] = "aw_create"
    /\ zombie[p] = NoInode
    /\ \E e \in {"OSError: ENOSPC", "OSError: EIO"} : exc' = [exc EXCEPT ![p] = e]
    /\ flockHolder' = [flockHolder EXCEPT ![fd[p]] = IF @ = p THEN NoProc ELSE @]
    /\ fd' = [fd EXCEPT ![p] = NoInode]
    /\ pc' = [pc EXCEPT ![p] = "lk_sleep"]
    /\ UNCHANGED <<mode, payload, result, loaded, lockEntry, zombie, fileVars, txnVars, bpVars, clVars, ixVars, dasVars, evVars>>

\* lines 89, 99 after the body has raised: the flock succeeds again and the
\* generator yields a second time; contextlib's __exit__ raises RuntimeError
\* ("generator didn't stop after throw()") and the generator stays suspended at
\* line 99 with lock_file open and locked
LockReacquire(p) ==
    /\ pc[p] = "lk_flock"
    /\ exc[p] # "none"
    /\ flockHolder[fd[p]] = NoProc
    /\ flockHolder' = [flockHolder EXCEPT ![fd[p]] = p]
    /\ zombie' = [zombie EXCEPT ![p] = fd[p]]
    /\ fd' = [fd EXCEPT ![p] = NoInode]
    /\ SaveEnds(p, "RuntimeError")
    /\ UNCHANGED <<mode, loaded, lockEntry, fileVars, txnVars, bpVars, clVars, ixVars, dasVars, evVars>>

\* the suspended generator is closed (by contextlib before the RuntimeError leaves
\* it, or when the interpreter collects it): GeneratorExit at line 99 runs the
\* finally block of lines 113-120
GenFinalize(p) ==
    /\ zombie[p] # NoInode
    /\ flockHolder' = [flockHolder EXCEPT ![zombie[p]] = IF @ = p THEN NoProc ELSE @]
    /\ zombie' = [zombie EXCEPT ![p] = NoInode]
    /\ lockEntry' = NoInode
    /\ UNCHANGED <<procVars, fd, fileVars, txnVars, bpVars, clVars, ixVars, dasVars, evVars>>

(***************************************************************************)
(* save and load (pms_core.py:469-519), for a target that is not a         *)
(* blueprint.md                                                            *)
(***************************************************************************)
NotLoaded == <<"<none>">>

\* yaml.safe_load(content) at line 488 does not raise
YamlParses(content) == \A i \in 1 .. Len(content) : content[i] # "!"

\* lines 506-513: save(scope, data) resolves the target and enters _with_file_lock
SaveCall(p, data) ==
    /\ pc[p] = "idle"
    /\ payload' = [payload EXCEPT ![p] = data]
    /\ mode' = [mode EXCEPT ![p] = "plain"]
    /\ exc' = [exc EXCEPT ![p] = "none"]
    /\ result' = [result EXCEPT ![p] = "running"]
    /\ pc' = [pc EXCEPT ![p] = "lk_open"]
    /\ UNCHANGED <<loaded, lockVars, fileVars, txnVars, bpVars, clVars, ixVars, dasVars, evVars>>

\* line 476
LoadCall(p) ==
    /\ pc[p] = "idle"
    /\ result' = [result EXCEPT ![p] = "running"]
    /\ loaded' = [loaded EXCEPT ![p] = NotLoaded]
    /\ pc' = [pc EXCEPT ![p] = "ld_exists"]
    /\ UNCHANGED <<mode, payload, exc, lockVars, fileVars, txnVars, bpVars, clVars, ixVars, dasVars, evVars>>

\* lines 477-478
LoadExists(p) ==
    /\ pc[p] = "ld_exists"
    /\ IF target = Absent
          THEN /\ result' = [result EXCEPT ![p] = "FileNotFoundError"]
               /\ pc' = [pc EXCEPT ![p] = "idle"]
          ELSE /\ pc' = [pc EXCEPT ![p] = "ld_read"]
               /\ UNCHANGED result
    /\ UNCHANGED <<mode, payload, exc, loaded, lockVars, fileVars, txnVars, bpVars, clVars, ixVars, dasVars, evVars>>

\* lines 477-492: what load() hands back for a target holding t
LoadOutcome(t) ==
    IF t = Absent THEN [result |-> "FileNotFoundError", loaded |-> NotLoaded]
    ELSE [result |-> IF YamlParses(t) THEN "ok" ELSE "YAMLError", loaded |-> t]

\* LoadRead removing the lock sentinel of the path it read
LoadRead_Unlocks(p) ==
    /\ pc[p] = "ld_read"
    /\ loaded' = [loaded EXCEPT ![p] = LoadOutcome(target).loaded]
    /\ result' = [result EXCEPT ![p] = LoadOutcome(target).result]
    /\ lockEntry' = NoInode
    /\ pc' = [pc EXCEPT ![p] = "idle"]
    /\ UNCHANGED <<mode, payload, exc, flockHolder, fd, zombie, fileVars, txnVars, bpVars, clVars, ixVars, dasVars, evVars>>

\* lines 481-488: read_bytes() reads what the target holds at that moment, then
\* the YAML codec decodes it
LoadRead(p) ==
    /\ pc[p] = "ld_read"
    /\ IF target = Absent
          THEN /\ result' = [result EXCEPT ![p] = "FileNotFoundError"]
               /\ UNCHANGED loaded
          ELSE /\ loaded' = [loaded EXCEPT ![p] = target]
               /\ result' = [result EXCEPT ![p] =
                               IF YamlParses(target) THEN "ok" ELSE "YAMLError"]
    /\ pc' = [pc EXCEPT ![p] = "idle"]
    /\ UNCHANGED <<mode, payload, exc, lockVars, fileVars, txnVars, bpVars, clVars, ixVars, dasVars, evVars>>

(***************************************************************************)
(* Blueprint texts (pms_core.py:526-550, 570-611)                          *)
(*                                                                         *)
(* A text is a sequence of atoms: the three characters "---", a newline,   *)
(* an ordinary character, a single "-", one "key: value" header entry, or  *)
(* a piece of text YAML cannot parse.  The value of a sha1_hash entry is   *)
(* the byte sequence that was hashed, so two hashes are equal exactly when *)
(* the hashed bytes are.                                                   *)
(***************************************************************************)
Atom(t, k, vk, v) == [t |-> t, k |-> k, vk |-> vk, v |-> v]
DASH      == Atom("dash3", "", "", <<>>)
NL        == Atom("nl", "", "", <<>>)
CH(c)     == Atom("ch", c, "", <<>>)
KV(k, vk) == Atom("kv", k, vk, <<>>)

\* line 122: _sha1_of_bytes, as the header line "sha1_hash: <hex digest of b>"
HashLine(b) == <<Atom("kv", "sha1_hash", "hash", b)>>

StartsWithDash(text) == Len(text) > 0 /\ text[1] = DASH

\* the least element of a non-empty set of numbers
Least(S) == CHOOSE i \in S : \A j \in S : i <= j

\* str.splitlines()
RECURSIVE SplitLines(_)
SplitLines(text) ==
    IF text = <<>> THEN <<>>
    ELSE LET nls == {i \in 1 .. Len(text) : text[i] = NL} IN
         IF nls = {} THEN <<text>>
         ELSE <<SubSeq(text, 1, Least(nls) - 1)>>
                  \o SplitLines(SubSeq(text, Least(nls) + 1, Len(text)))

\* "\n".join(lines)
RECURSIVE JoinLines(_)
JoinLines(lines) ==
    IF lines = <<>> THEN <<>>
    ELSE IF Len(lines) = 1 THEN lines[1]
    ELSE lines[1] \o <<NL>> \o JoinLines(Tail(lines))

\* str.strip(): leading and trailing whitespace removed
RECURSIVE Strip(_)
Strip(text) ==
    IF text = <<>> THEN <<>>
    ELSE IF text[1] = NL THEN Strip(Tail(text))
    ELSE IF text[Len(text)] = NL THEN Strip(SubSeq(text, 1, Len(text) - 1))
    ELSE text

\* text.find("---", 3) of a text that starts with "---": the position of the next
\* "---", 0 for Python's -1
FindDash(text) ==
    LET hits == {i \in 2 .. Len(text) : text[i] = DASH} IN
    IF hits = {} THEN 0 ELSE Least(hits)

\* d[key] = line of a dict kept as the sequence of its entries' lines: an existing
\* key keeps its place, a new one goes last
SetKey(d, line) ==
    LET at == {i \in 1 .. Len(d) : d[i][1].k = line[1].k} IN
    IF at = {} THEN Append(d, line) ELSE [d EXCEPT ![Least(at)] = line]

\* d.get(key): the entry's line, <<>> when the key is missing
GetKey(d, key) ==
    LET at == {i \in 1 .. Len(d) : d[i][1].k = key} IN
    IF at = {} THEN <<>> ELSE d[Least(at)]

RECURSIVE DictOf(_)
DictOf(lines) ==
    IF lines = <<>> THEN <<>> ELSE SetKey(DictOf(SubSeq(lines, 1, Len(lines) - 1)), lines[Len(lines)])

\* yaml.safe_load(text) or {}: a mapping (the empty one for a blank text) when
\* every non-empty line is one "key: value" entry, whose value may run on to the
\* end of the line; a scalar when no line holds an entry; a YAMLError otherwise
YamlLoad(text) ==
    LET lines   == SelectSeq(SplitLines(text), LAMBDA l : l # <<>>)
        IsEntry(l) == /\ l[1].t = "kv"
                      /\ \A i \in 2 .. Len(l) : l[i].t \notin {"kv", "bad"}
        IsPlain(l) == \A i \in 1 .. Len(l) : l[i].t \notin {"kv", "bad"}
    IN  IF \A i \in 1 .. Len(lines) : IsEntry(lines[i])
           THEN [kind |-> "map", entries |-> DictOf(lines)]
        ELSE IF \A i \in 1 .. Len(lines) : IsPlain(lines[i])
           THEN [kind |-> "scalar", entries |-> <<>>]
        ELSE [kind |-> "error", entries |-> <<>>]

\* the truth value Python gives a header value: a missing key (<<>>) and an empty
\* value are false
Truthy(line) == line # <<>> /\ ~(Len(line) = 1 /\ line[1].vk = "empty")

\* lines 570-595: _update_blueprint_metadata(text): the text save() writes, or the
\* exception it raises
UpdateBlueprintMetadata(text) ==
    IF ~StartsWithDash(text) THEN [kind |-> "ok", text |-> text]
    ELSE
      LET lines   == SplitLines(text)
          rest    == Tail(lines)
          close   == {i \in 1 .. Len(rest) : rest[i] = <<DASH>>}
          header  == IF close = {} THEN rest ELSE SubSeq(rest, 1, Least(close) - 1)
          bodyLns == IF close = {} THEN lines ELSE SubSeq(lines, Least(close) + 2, Len(lines))
          body    == JoinLines(bodyLns)
          y       == YamlLoad(JoinLines(header))
      IN  IF y.kind = "error" THEN [kind |-> "YAMLError", text |-> <<>>]
          ELSE IF y.kind = "scalar" THEN [kind |-> "TypeError", text |-> <<>>]
          ELSE [kind |-> "ok",
                text |-> <<DASH, NL>>
                           \o JoinLines(SetKey(SetKey(y.entries, <<KV("last_modified", "time")>>), HashLine(body)))
                           \o <<NL, DASH, NL>> \o body]

\* the body _update_blueprint_metadata hashes (lines 589-590)
SavedBody(text) ==
    LET lines == SplitLines(text)
        rest  == Tail(lines)
        close == {i \in 1 .. Len(rest) : rest[i] = <<DASH>>}
    IN  JoinLines(IF close = {} THEN lines ELSE SubSeq(lines, Least(close) + 2, Len(lines)))

\* lines 603-608: the header text and the body _validate_blueprint_sha takes from
\* a text that starts with "---"; with find() = -1 the slices are text[3:-1] and
\* text[2:]
ValidatedHeader(text) ==
    IF FindDash(text) = 0
       THEN SubSeq(text, 2, Len(text) - 1)
       ELSE SubSeq(text, 2, FindDash(text) - 1)
ValidatedBody(text) ==
    IF FindDash(text) = 0
       THEN <<CH("-")>> \o Tail(text)
       ELSE SubSeq(text, FindDash(text) + 1, Len(text))

\* lines 598-611: _validate_blueprint_sha: "ok" or the exception raised
ValidateBlueprintSha(text) ==
    IF ~StartsWithDash(text) THEN "FileIntegrityError"
    ELSE LET y        == YamlLoad(ValidatedHeader(text))
             expected == GetKey(y.entries, "sha1_hash")
         IN  IF y.kind = "error" THEN "YAMLError"
             ELSE IF y.kind = "scalar" THEN "AttributeError"
             ELSE IF Truthy(expected) /\ expected # HashLine(ValidatedBody(text))
                THEN "FileIntegrityError"
             ELSE "ok"

NoLine == <<>>
NoFile == <<Atom("nofile", "", "", <<>>)>>
Doc(kind, header, content, hash) ==
    [kind |-> kind, header |-> header, content |-> content, sha1_hash |-> hash]
NoResult == Doc("none", <<>>, <<>>, NoLine)

\* lines 526-550: _parse_blueprint_markdown
ParseBlueprintMarkdown(text) ==
    IF ~StartsWithDash(text) \/ FindDash(text) = 0 THEN Doc("ok", <<>>, text, NoLine)
    ELSE LET hy   == SubSeq(text, 2, FindDash(text) - 1)
             body == Strip(SubSeq(text, FindDash(text) + 1, Len(text)))
             y    == YamlLoad(hy)
         IN  IF y.kind = "scalar" THEN Doc("AttributeError", <<>>, <<>>, NoLine)
             ELSE Doc("ok", y.entries, body, GetKey(y.entries, "sha1_hash"))

\* lines 481-486: load() of a path matching *blueprint.md
LoadBlueprint(text) ==
    IF ValidateBlueprintSha(text) # "ok"
       THEN Doc(ValidateBlueprintSha(text), <<>>, <<>>, NoLine)
       ELSE ParseBlueprintMarkdown(text)

(***************************************************************************)
(* The blueprint changelog (pms_core.py:614-657)                           *)
(*                                                                         *)
(* docs/blueprint_changes.csv is a sequence of rows, each row standing for *)
(* its first cell: HeaderRow for the row "id,author,...", the id for a     *)
(* data row.                                                               *)
(***************************************************************************)
Savers    == {"w1", "w2"}
OtherSavers == {"r1"}
NoCsv     == <<-1>>
HeaderRow == 0

\* lines 639-657: _get_next_change_id
GetNextChangeId(file) ==
    IF file = NoCsv \/ Len(file) <= 1 THEN 1
    ELSE LET ids == {file[i] : i \in 2 .. Len(file)} \cup {0}
         IN  (CHOOSE n \in ids : \A k \in ids : k <= n) + 1

\* no save() of a blueprint.md is under way
IdleCL ==
    /\ clFile = NoCsv
    /\ clPc = [p \in Savers \cup OtherSavers |-> "idle"]
    /\ clNext = [p \in Savers |-> 0]
    /\ clCount = [p \in Savers |-> 0]
    /\ clSaved = [p \in Savers |-> 0]

(***************************************************************************)
(* The memory index and its cache (pms_core.py:48, 671-679)                *)
(*                                                                         *)
(* memory/memory_index.yaml is kept as what yaml.safe_load makes of it.    *)
(***************************************************************************)
IndexFile(kind, paths, schemas) == [kind |-> kind, paths |-> paths, schemas |-> schemas]
\* line 48: _memory_index_cache = None; also what an empty file parses to
NoCache == IndexFile("none", "absent", {})
Data(type, complete, historias, tasks) ==
    [type |-> type, complete |-> complete, historias |-> historias, tasks |-> tasks]
NoArg   == [op |-> "none", scope |-> <<>>, schema |-> "", data |-> Data("none", FALSE, "absent", "good")]
NoRet   == [kind |-> "none", what |-> "", base |-> "", phase |-> <<>>]

\* no call that uses the memory index is under way
IdleIX ==
    /\ ixFile = IndexFile("missing", "absent", {})
    /\ ixCache = NoCache
    /\ ixArg = NoArg
    /\ ixRet = NoRet

(***************************************************************************)
(* DAS enforcer values (das/enforcer.py:120-264, 493-587)                  *)
(*                                                                         *)
(* A scope or a pattern is a sequence of tokens, "*" being a token of its  *)
(* own.                                                                    *)
(***************************************************************************)
\* agents/<agent_id>.yaml: missing, not YAML, empty (yaml.safe_load gives None),
\* or a mapping with pms_scopes.read / write / mode and enforcement.enabled /
\* strict_mode (absent keys stand as their defaults of lines 149-153)
AgentConfig(kind, read, write, smode, enabled, strict) ==
    [kind |-> kind, read_scopes |-> read, write_scopes |-> write, mode |-> smode,
     enforcement_enabled |-> enabled, strict_mode |-> strict]

\* the agent has no entry in permissions_cache
NoPermissions == AgentConfig("none", <<>>, <<>>, "update_single", TRUE, TRUE)

\* what a safe_pms_call did: the exception or the value it ended with, the
\* pms_core function it invoked and the mode it passed
Outcome(kind, what, pms, smode) == [kind |-> kind, what |-> what, pms |-> pms, mode |-> smode]

NoCall == [op |-> "none", scope |-> <<>>, mode |-> "None", importable |-> FALSE,
           out |-> Outcome("none", "", "none", "")]

DasScopes == {<<"blueprint">>, <<"backlog_f", "1">>, <<"backlog_f", "2">>}

\* no safe_pms_call is in play
IdleDAS ==
    /\ daConfig = AgentConfig("missing", <<>>, <<>>, "update_single", TRUE, TRUE)
    /\ daCache = NoPermissions
    /\ daCall = NoCall
    /\ daTarget = [sc \in DasScopes |-> "old"]

(***************************************************************************)
(* Event system values (core/event_system.py:149-443)                      *)
(***************************************************************************)
EventTypes     == {"TASK_STARTED", "SYSTEM_ERROR"}
EvSubscribers  == {"s1", "s2"}
\* a handler that returns, a function that raises, and a callable object
\* without __name__ that raises
Handlers       == {"good", "failing", "unnamed"}

\* lines 198-219: EventPublisher.__init__
NewPublisher ==
    [subscribers        |-> [t \in EventTypes |-> <<>>],
     global_subscribers |-> <<>>,
     event_history      |-> <<>>,
     stats              |-> [events_published |-> 0, events_processed |-> 0,
                             events_failed |-> 0, subscribers_count |-> 0],
     shutdown           |-> FALSE]

NoEvCall == [op |-> "none", invoked |-> <<>>, failedBefore |-> 0, handledBefore |-> 0,
             limit |-> 0, type |-> "None", ret |-> <<>>]

\* the publish calls that run concurrently in SpecSEM
Calls == {"c1", "c2"}

\* no publisher is in play
IdleEV ==
    /\ pub = NewPublisher
    /\ subs = [sb \in EvSubscribers |-> [t \in EventTypes |-> <<>>]]
    /\ active = [sb \in EvSubscribers |-> TRUE]
    /\ evCall = NoEvCall
    /\ permits = 0
    /\ task = [c \in Calls |-> "idle"]

(***************************************************************************)
(* Spec: writers and a reader racing on one target path                    *)
(***************************************************************************)
InitProcs ==
    /\ pc = [p \in Procs |-> "idle"]
    /\ mode = [p \in Procs |-> "plain"]
    /\ payload = [p \in Procs |-> <<>>]
    /\ exc = [p \in Procs |-> "none"]
    /\ result = [p \in Procs |-> "none"]
    /\ loaded = [p \in Procs |-> NotLoaded]
    /\ tmpfile = [p \in Procs |-> Absent]
    /\ tmpPath = [p \in Procs |-> FALSE]
    /\ tmpOrphan = FALSE
    /\ lockEntry = NoInode
    /\ flockHolder = [i \in Inodes |-> NoProc]
    /\ fd = [p \in Procs |-> NoInode]
    /\ zombie = [p \in Procs |-> NoInode]

InitTxn ==
    /\ txlog = <<>>
    /\ backup = [i \in TxnIds |-> Absent]
    /\ cur = [p \in Procs |-> 0]
    /\ rb = [p \in Procs |-> NoFrame]

\* no blueprint is in play
IdleBP ==
    /\ bpInput = <<>>
    /\ bpFile = NoFile
    /\ bpSaved = "no"
    /\ bpTampered = FALSE
    /\ bpResult = NoResult

Init ==
    /\ InitProcs
    /\ target \in {Absent, DocA}
    /\ InitTxn
    /\ IdleBP
    /\ IdleCL
    /\ IdleIX
    /\ IdleDAS
    /\ IdleEV

LockStep(p) ==
    \/ LockOpen(p) \/ LockAcquire(p) \/ LockBusy(p)
    \/ LockRetry(p) \/ LockTimeout(p) \/ LockClose(p) \/ LockUnlink(p)

WriteStep(p) ==
    \/ AwMkdirFail(p) \/ AwCreate(p) \/ AwCreateFail(p) \/ AwWrite(p) \/ AwWriteFail(p)
    \/ AwCheckOk(p) \/ AwCheckDenied(p) \/ AwReplace(p) \/ AwReplaceFail(p)

Next ==
    \/ \E p \in Writers : \E d \in SavePayloads : SaveCall(p, d)
    \/ \E p \in Writers : LockStep(p) \/ WriteStep(p)
    \/ \E p \in Readers : LoadCall(p) \/ LoadExists(p) \/ LoadRead(p)

Spec == Init /\ [][Next]_vars

(***************************************************************************)
(* SpecLK: two writers saving one payload to one target, with the body of  *)
(* the with-block also raising OSErrors that are no PMSCoreError           *)
(***************************************************************************)
InitLK ==
    /\ InitProcs
    /\ target = DocA
    /\ InitTxn
    /\ IdleBP
    /\ IdleCL
    /\ IdleIX
    /\ IdleDAS
    /\ IdleEV

NextLK ==
    \/ \E p \in Writers : SaveCall(p, DocB)
    \/ \E p \in Writers : LockStep(p) \/ WriteStep(p)
    \/ \E p \in Writers : AwMkdirOSError(p) \/ LockReacquire(p) \/ GenFinalize(p)

SpecLK == InitLK /\ [][NextLK]_vars

(***************************************************************************)
(* SpecFB: two writers on a platform with neither fcntl nor msvcrt         *)
(***************************************************************************)
NextFB ==
    \/ \E p \in Writers : \E d \in SavePayloads : SaveCall(p, d)
    \/ \E p \in Writers : LockOpen(p) \/ FbExists(p) \/ FbAcquire(p)
    \/ \E p \in Writers : LockRetry(p) \/ LockTimeout(p) \/ LockClose(p) \/ LockUnlink(p)
    \/ \E p \in Writers : WriteStep(p)

SpecFB == Init /\ [][NextFB]_vars

(***************************************************************************)
(* TransactionManager and PMSCore.save (pms_core.py:203-220, 358-462)      *)
(*                                                                         *)
(* A transaction record keeps the fields the code reads (status,           *)
(* original_existed; its id is its index in the log, its backup_path the   *)
(* file backup[id]) and one history field: pre, the target as it was when  *)
(* begin_transaction ran.                                                  *)
(***************************************************************************)
Terminal == {"committed", "rolled_back", "failed_rollback"}

\* lines 367-386: begin_transaction copies an existing target to the backup path
\* and appends the active record
BeginTransaction ==
    /\ txlog' = Append(txlog, [status |-> "active",
                               original_existed |-> target # Absent,
                               pre |-> target])
    /\ backup' = [backup EXCEPT ![Len(txlog) + 1] = target]

\* lines 311-355: validate_file_integrity for a YAML scope the memory index
\* declares neither a schema nor a hash for: the file exists and load() decodes it
ValidateFileIntegrity == target # Absent /\ YamlParses(target)

\* a call of rollback_transaction(id); ret is the line that called it
CallRollback(p, id, ret) ==
    /\ rb' = [rb EXCEPT ![p] = [txn |-> id, ret |-> ret,
                                wasActive |-> txlog[id].status = "active",
                                entry |-> target]]
    /\ pc' = [pc EXCEPT ![p] = "rb_start"]

\* a call of the client returns to the program
BackToProgram(p, res) ==
    /\ result' = [result EXCEPT ![p] = res]
    /\ pc' = [pc EXCEPT ![p] = "idle"]
    /\ mode' = [mode EXCEPT ![p] = "plain"]
    /\ payload' = [payload EXCEPT ![p] = <<>>]
    /\ exc' = [exc EXCEPT ![p] = "none"]
    /\ cur' = [cur EXCEPT ![p] = 0]
    /\ rb' = [rb EXCEPT ![p] = NoFrame]

\* lines 205-213: PMSCore.save begins the transaction, renders the payload and
\* calls save()
TxnSaveCall(p, data) ==
    /\ pc[p] = "idle"
    /\ Len(txlog) < MaxTxns
    /\ BeginTransaction
    /\ cur' = [cur EXCEPT ![p] = Len(txlog) + 1]
    /\ payload' = [payload EXCEPT ![p] = data]
    /\ mode' = [mode EXCEPT ![p] = "txn"]
    /\ exc' = [exc EXCEPT ![p] = "none"]
    /\ result' = [result EXCEPT ![p] = "running"]
    /\ pc' = [pc EXCEPT ![p] = "lk_open"]
    /\ UNCHANGED <<loaded, lockVars, fileVars, rb, bpVars, clVars, ixVars, dasVars, evVars>>

\* line 206 raising (shutil.copy2 of line 375 fails): transaction_id is not a
\* local yet, so lines 217-220 raise without a rollback; no record was appended
TxnSaveBeginFail(p) ==
    /\ pc[p] = "idle"
    /\ target # Absent
    /\ result' = [result EXCEPT ![p] = "PMSCoreError"]
    /\ UNCHANGED <<pc, mode, payload, exc, loaded, lockVars, fileVars, txnVars, bpVars, clVars, ixVars, dasVars, evVars>>

\* SaveRaised with the except block of PMSCore.save re-raising without a rollback
SaveRaised_NoRollback(p) ==
    /\ pc[p] = "sx_except"
    /\ BackToProgram(p, "PMSCoreError")
    /\ UNCHANGED <<loaded, lockVars, fileVars, txlog, backup, bpVars, clVars, ixVars, dasVars, evVars>>

\* lines 217-219: save() raised; PMSCore.save calls rollback_transaction
SaveRaised(p) ==
    /\ pc[p] = "sx_except"
    /\ CallRollback(p, cur[p], "sv_except")
    /\ exc' = [exc EXCEPT ![p] = "none"]
    /\ UNCHANGED <<mode, payload, result, loaded, lockVars, fileVars, txlog, backup, cur, bpVars, clVars, ixVars, dasVars, evVars>>

\* CommitValidate with the result of validate_file_integrity ignored
CommitValidate_Unchecked(p) ==
    /\ pc[p] = "cm_validate"
    /\ pc' = [pc EXCEPT ![p] = "cm_unlink"]
    /\ UNCHANGED <<mode, payload, exc, result, loaded, lockVars, fileVars, txnVars, bpVars, clVars, ixVars, dasVars, evVars>>

\* lines 390-398: commit_transaction validates the written target
CommitValidate(p) ==
    /\ pc[p] = "cm_validate"
    /\ IF ValidateFileIntegrity
          THEN /\ pc' = [pc EXCEPT ![p] = "cm_unlink"]
               /\ UNCHANGED rb
          ELSE CallRollback(p, cur[p], "cm_invalid")
    /\ UNCHANGED <<mode, payload, exc, result, loaded, lockVars, fileVars, txlog, backup, cur, bpVars, clVars, ixVars, dasVars, evVars>>

\* lines 400-403 (and 214-215): the backup is deleted, the record marked committed
CommitUnlink(p) ==
    /\ pc[p] = "cm_unlink"
    /\ backup' = [backup EXCEPT ![cur[p]] = Absent]
    /\ txlog' = [txlog EXCEPT ![cur[p]].status = "committed"]
    /\ BackToProgram(p, "ok")
    /\ UNCHANGED <<loaded, lockVars, fileVars, bpVars, clVars, ixVars, dasVars, evVars>>

\* line 401 raising; lines 405-406
CommitUnlinkFail(p) ==
    /\ pc[p] = "cm_unlink"
    /\ backup[cur[p]] # Absent
    /\ CallRollback(p, cur[p], "cm_except")
    /\ UNCHANGED <<mode, payload, exc, result, loaded, lockVars, fileVars, txlog, backup, cur, bpVars, clVars, ixVars, dasVars, evVars>>

\* RbStart with the restore of an existing file left out
RbStart_NoRestore(p) ==
    /\ pc[p] = "rb_start"
    /\ pc' = [pc EXCEPT ![p] = "rb_unlink_backup"]
    /\ UNCHANGED <<mode, payload, exc, result, loaded, lockVars, fileVars, txnVars, bpVars, clVars, ixVars, dasVars, evVars>>

\* lines 416-424: the branch rollback_transaction takes
RbStart(p) ==
    /\ pc[p] = "rb_start"
    /\ LET t == txlog[rb[p].txn] IN
       pc' = [pc EXCEPT ![p] =
                IF t.original_existed /\ backup[rb[p].txn] # Absent THEN "rb_copy_open"
                ELSE IF ~t.original_existed /\ target # Absent THEN "rb_unlink_target"
                ELSE "rb_unlink_backup"]
    /\ UNCHANGED <<mode, payload, exc, result, loaded, lockVars, fileVars, txnVars, bpVars, clVars, ixVars, dasVars, evVars>>

\* line 420: shutil.copy2 opens the target for writing, which truncates it
RbCopyOpen(p) ==
    /\ pc[p] = "rb_copy_open"
    /\ target' = <<>>
    /\ pc' = [pc EXCEPT ![p] = IF Len(backup[rb[p].txn]) = 0 THEN "rb_unlink_backup"
                                                             ELSE "rb_copy_write"]
    /\ UNCHANGED <<mode, payload, exc, result, loaded, lockVars, tmpfile, tmpPath, tmpOrphan, txnVars, bpVars, clVars, ixVars, dasVars, evVars>>

\* line 420: shutil.copy2 writes the backup's bytes into the target, in one or
\* more writes
RbCopyWrite(p) ==
    /\ pc[p] = "rb_copy_write"
    /\ \E n \in (Len(target) + 1) .. Len(backup[rb[p].txn]) :
          /\ target' = Prefix(backup[rb[p].txn], n)
          /\ pc' = [pc EXCEPT ![p] = IF n = Len(backup[rb[p].txn]) THEN "rb_unlink_backup"
                                                                   ELSE "rb_copy_write"]
    /\ UNCHANGED <<mode, payload, exc, result, loaded, lockVars, tmpfile, tmpPath, tmpOrphan, txnVars, bpVars, clVars, ixVars, dasVars, evVars>>

\* RbUnlinkTarget with the file left in place
RbUnlinkTarget_Keep(p) ==
    /\ pc[p] = "rb_unlink_target"
    /\ pc' = [pc EXCEPT ![p] = "rb_unlink_backup"]
    /\ UNCHANGED <<mode, payload, exc, result, loaded, lockVars, fileVars, txnVars, bpVars, clVars, ixVars, dasVars, evVars>>

\* line 422: the target the transaction created is deleted
RbUnlinkTarget(p) ==
    /\ pc[p] = "rb_unlink_target"
    /\ target' = Absent
    /\ pc' = [pc EXCEPT ![p] = "rb_unlink_backup"]
    /\ UNCHANGED <<mode, payload, exc, result, loaded, lockVars, tmpfile, tmpPath, tmpOrphan, txnVars, bpVars, clVars, ixVars, dasVars, evVars>>

\* lines 424-428: the backup is deleted, the record marked rolled_back
RbUnlinkBackup(p) ==
    /\ pc[p] = "rb_unlink_backup"
    /\ backup' = [backup EXCEPT ![rb[p].txn] = Absent]
    /\ txlog' = [txlog EXCEPT ![rb[p].txn].status = "rolled_back"]
    /\ pc' = [pc EXCEPT ![p] = "rb_return"]
    /\ UNCHANGED <<mode, payload, exc, result, loaded, lockVars, fileVars, cur, rb, bpVars, clVars, ixVars, dasVars, evVars>>

\* lines 430-432: a file operation of lines 420-425 raised
RbFail(p) ==
    /\ \/ pc[p] \in {"rb_copy_open", "rb_copy_write", "rb_unlink_target"}
       \/ pc[p] = "rb_unlink_backup" /\ backup[rb[p].txn] # Absent
    /\ txlog' = [txlog EXCEPT ![rb[p].txn].status = "failed_rollback"]
    /\ pc' = [pc EXCEPT ![p] = "rb_raise"]
    /\ UNCHANGED <<mode, payload, exc, result, loaded, lockVars, fileVars, backup, cur, rb, bpVars, clVars, ixVars, dasVars, evVars>>

\* rollback_transaction has ended; the line that called it goes on:
\*   397 (commit found the target invalid): line 398 raises, or the rollback's own
\*       error arrives, inside the try, and line 406 calls the rollback again;
\*   406: line 407 raises, or the rollback's error leaves commit_transaction; when
\*       PMSCore.save called the commit, line 219 calls the rollback once more;
\*   219: line 220 raises, or the rollback's error leaves PMSCore.save;
\*   the program (rollback_transaction, rollback_to_version): True, or the error.
RollbackEnds(p, raised) ==
    LET f == rb[p] IN
    IF f.ret = "cm_invalid"
       THEN /\ CallRollback(p, f.txn, "cm_except")
            /\ UNCHANGED <<mode, payload, exc, result, cur>>
    ELSE IF f.ret = "cm_except" /\ mode[p] = "txn"
       THEN /\ CallRollback(p, f.txn, "sv_except")
            /\ UNCHANGED <<mode, payload, exc, result, cur>>
    ELSE BackToProgram(p, IF f.ret \in {"api", "to_version"} /\ ~raised
                             THEN "ok" ELSE "PMSCoreError")

\* line 428: return True
RbReturn(p) ==
    /\ pc[p] = "rb_return"
    /\ RollbackEnds(p, FALSE)
    /\ UNCHANGED <<loaded, lockVars, fileVars, txlog, backup, bpVars, clVars, ixVars, dasVars, evVars>>

\* line 432: raise PMSCoreError
RbRaise(p) ==
    /\ pc[p] = "rb_raise"
    /\ RollbackEnds(p, TRUE)
    /\ UNCHANGED <<loaded, lockVars, fileVars, txlog, backup, bpVars, clVars, ixVars, dasVars, evVars>>

\* the program calls begin_transaction itself (tests/test_pms_core.py:273-297)
ApiBegin(p) ==
    /\ pc[p] = "idle"
    /\ Len(txlog) < MaxTxns
    /\ BeginTransaction
    /\ result' = [result EXCEPT ![p] = "ok"]
    /\ UNCHANGED <<pc, mode, payload, exc, loaded, lockVars, fileVars, cur, rb, bpVars, clVars, ixVars, dasVars, evVars>>

\* the program calls commit_transaction(id) itself
ApiCommit(p, id) ==
    /\ pc[p] = "idle"
    /\ id \in DOMAIN txlog
    /\ cur' = [cur EXCEPT ![p] = id]
    /\ result' = [result EXCEPT ![p] = "running"]
    /\ pc' = [pc EXCEPT ![p] = "cm_validate"]
    /\ UNCHANGED <<mode, payload, exc, loaded, lockVars, fileVars, txlog, backup, rb, bpVars, clVars, ixVars, dasVars, evVars>>

\* the program calls rollback_transaction(id) itself
ApiRollback(p, id) ==
    /\ pc[p] = "idle"
    /\ id \in DOMAIN txlog
    /\ CallRollback(p, id, "api")
    /\ result' = [result EXCEPT ![p] = "running"]
    /\ UNCHANGED <<mode, payload, exc, loaded, lockVars, fileVars, txlog, backup, cur, bpVars, clVars, ixVars, dasVars, evVars>>

\* lines 434-442 (PMSCore.rollback, 222-224): rollback_to_version rolls back the
\* last committed transaction of the scope, or returns False
RollbackToVersion(p) ==
    /\ pc[p] = "idle"
    /\ LET committed == {i \in DOMAIN txlog : txlog[i].status = "committed"} IN
       IF committed = {}
          THEN /\ result' = [result EXCEPT ![p] = "False"]
               /\ UNCHANGED <<pc, rb>>
          ELSE /\ CallRollback(p, CHOOSE i \in committed : \A j \in committed : j <= i,
                                "to_version")
               /\ result' = [result EXCEPT ![p] = "running"]
    /\ UNCHANGED <<mode, payload, exc, loaded, lockVars, fileVars, txlog, backup, cur, bpVars, clVars, ixVars, dasVars, evVars>>

(***************************************************************************)
(* SpecTxn: one client of a PMSCore object, on one scope                   *)
(***************************************************************************)
InitT ==
    /\ InitProcs
    /\ target \in {Absent, DocA}
    /\ InitTxn
    /\ IdleBP
    /\ IdleCL
    /\ IdleIX
    /\ IdleDAS
    /\ IdleEV

TxnStep(p) ==
    \/ SaveRaised(p) \/ CommitValidate(p) \/ CommitUnlink(p) \/ CommitUnlinkFail(p)
    \/ RbStart(p) \/ RbCopyOpen(p) \/ RbCopyWrite(p) \/ RbUnlinkTarget(p)
    \/ RbUnlinkBackup(p) \/ RbFail(p) \/ RbReturn(p) \/ RbRaise(p)

NextTxn ==
    \/ \E p \in TxnProcs : \E d \in {DocB, DocBad} : TxnSaveCall(p, d) \/ SaveCall(p, d)
    \/ \E p \in TxnProcs : TxnSaveBeginFail(p) \/ ApiBegin(p) \/ RollbackToVersion(p)
    \/ \E p \in TxnProcs : \E id \in TxnIds : ApiCommit(p, id) \/ ApiRollback(p, id)
    \/ \E p \in TxnProcs : TxnStep(p)
    \/ \E p \in TxnProcs : LockOpen(p) \/ LockOpenFail(p) \/ LockAcquire(p) \/ LockRetry(p)
                              \/ LockTimeout(p) \/ LockClose(p) \/ LockUnlink(p)
    \/ \E p \in TxnProcs : AwCreate(p) \/ AwWrite(p) \/ AwCheckOk(p) \/ AwCheckDenied(p)
                              \/ AwReplace(p) \/ AwReplaceFail(p)

SpecTxn == InitT /\ [][NextTxn]_vars

(***************************************************************************)
(* SpecTT: two callers of PMSCore.save on one scope, w1 saving DocB and w2 *)
(* saving DocC                                                             *)
(***************************************************************************)
NextTT ==
    \/ \E p \in Writers : TxnSaveCall(p, IF p = "w1" THEN DocB ELSE DocC)
    \/ \E p \in Writers : TxnStep(p)
    \/ \E p \in Writers : LockStep(p) \/ WriteStep(p)

SpecTT == InitT /\ [][NextTT]_vars

(***************************************************************************)
(* SpecBP's inputs and steps: save() and load() of a blueprint.md          *)
(***************************************************************************)
MaxHeaderLines == 2
MaxBody        == 2

Headers ==
    LET HeaderLineKinds ==
    { <<KV("version", "lit")>>,                  \* version: 1
      <<KV("title", "lit"), DASH, CH("x")>>,     \* title: a---x
      <<KV("sha1_hash", "empty")>>,              \* sha1_hash: ''
      <<Atom("bad", "", "", <<>>)>>,                                   \* not YAML
      <<CH("x")>> }                              \* a bare word
    IN  UNION {[1 .. n -> HeaderLineKinds] : n \in 0 .. MaxHeaderLines}
BodyAtoms == {NL, CH("x")}
Bodies    == UNION {[1 .. n -> BodyAtoms] : n \in 0 .. MaxBody}

BlueprintInputs ==
    LET \* "---\n<header lines>\n---\n<body>"
        WithFrontMatter(h, b) ==
            <<DASH, NL>> \o (IF h = <<>> THEN <<>> ELSE JoinLines(h) \o <<NL>>)
                \o <<DASH, NL>> \o b
        \* "---\n<header lines>\n" with no closing line
        Unclosed(h) == <<DASH, NL>> \o JoinLines(h) \o <<NL>>
    IN  {WithFrontMatter(h, b) : h \in Headers, b \in Bodies}
            \cup {Unclosed(h) : h \in Headers} \cup Bodies

\* lines 572-581: the text starts with "---" and a later line is "---"
HasFrontMatter(text) ==
    /\ StartsWithDash(text)
    /\ \E i \in 2 .. Len(SplitLines(text)) : SplitLines(text)[i] = <<DASH>>

\* what an editor can make of a body: one byte deleted, changed or added
EditedBodies(b) ==
    ( {SubSeq(b, 1, i - 1) \o SubSeq(b, i + 1, Len(b)) : i \in 1 .. Len(b)}
      \cup {[b EXCEPT ![i] = a] : i \in 1 .. Len(b), a \in BodyAtoms}
      \cup {Append(b, a) : a \in BodyAtoms}
      \cup {<<a>> \o b : a \in BodyAtoms} ) \ {b}

InitBP ==
    /\ bpInput \in BlueprintInputs
    /\ bpFile \in {NoFile, bpInput}
    /\ bpSaved = "no"
    /\ bpTampered = FALSE
    /\ bpResult = NoResult

nonBpVars == <<procVars, fileVars, lockVars, txnVars, clVars, ixVars, dasVars, evVars>>

\* lines 515-519: save() of a blueprint path writes the stamped text
BpSave ==
    /\ bpSaved = "no"
    /\ UpdateBlueprintMetadata(bpInput).kind = "ok"
    /\ bpFile' = UpdateBlueprintMetadata(bpInput).text
    /\ bpSaved' = "written"
    /\ bpTampered' = FALSE
    /\ bpResult' = NoResult
    /\ UNCHANGED <<bpInput, nonBpVars>>

\* lines 516, 585: _update_blueprint_metadata raises and nothing is written
BpSaveRaises ==
    /\ bpSaved = "no"
    /\ UpdateBlueprintMetadata(bpInput).kind # "ok"
    /\ bpSaved' = UpdateBlueprintMetadata(bpInput).kind
    /\ UNCHANGED <<bpInput, bpFile, bpTampered, bpResult, nonBpVars>>

\* the body of a stamped file is edited behind the program's back, the header
\* left as it was
BpTamper(b) ==
    /\ bpSaved = "written"
    /\ ~bpTampered
    /\ StartsWithDash(bpInput)
    /\ b \in EditedBodies(SavedBody(bpInput))
    /\ bpFile' = SubSeq(bpFile, 1, Len(bpFile) - Len(SavedBody(bpInput))) \o b
    /\ bpTampered' = TRUE
    /\ bpResult' = NoResult
    /\ UNCHANGED <<bpInput, bpSaved, nonBpVars>>

\* lines 476-486: load() of the blueprint path
BpLoad ==
    /\ bpFile # NoFile
    /\ bpResult = NoResult
    /\ bpResult' = LoadBlueprint(bpFile)
    /\ UNCHANGED <<bpInput, bpFile, bpSaved, bpTampered, nonBpVars>>

\* lines 477-478
BpLoadMissing ==
    /\ bpFile = NoFile
    /\ bpResult = NoResult
    /\ bpResult' = Doc("FileNotFoundError", <<>>, <<>>, NoLine)
    /\ UNCHANGED <<bpInput, bpFile, bpSaved, bpTampered, nonBpVars>>

InitB ==
    /\ InitProcs
    /\ target = Absent
    /\ InitTxn
    /\ InitBP
    /\ IdleCL
    /\ IdleIX
    /\ IdleDAS
    /\ IdleEV

NextBP ==
    \/ BpSave
    \/ BpSaveRaises
    \/ \E b \in Bodies \cup {<<NL, NL, NL>>} : BpTamper(b)
    \/ BpLoad
    \/ BpLoadMissing

SpecBP == InitB /\ [][NextBP]_vars

(***************************************************************************)
(* SpecCL: processes saving blueprint.md files of their own, and so        *)
(* appending to the one changelog, while another process saves elsewhere   *)
(***************************************************************************)
MaxAppends == 2

clOtherVars == <<procVars, fileVars, lockVars, txnVars, bpVars, ixVars, dasVars, evVars>>

\* lines 513-517: save() of a path matching *blueprint.md holds the lock of its own
\* target and calls _append_blueprint_change
ClSaveCall(p) ==
    /\ clPc[p] = "idle"
    /\ clCount[p] < MaxAppends
    /\ clPc' = [clPc EXCEPT ![p] = "cl_check"]
    /\ UNCHANGED <<clFile, clNext, clCount, clSaved, clOtherVars>>

\* line 619: does the file exist, and with a size other than 0
ClCheck(p) ==
    /\ clPc[p] = "cl_check"
    /\ clPc' = [clPc EXCEPT ![p] = IF clFile = NoCsv \/ clFile = <<>> THEN "cl_header"
                                                                      ELSE "cl_next"]
    /\ UNCHANGED <<clFile, clNext, clCount, clSaved, clOtherVars>>

\* lines 620-622: open("w") truncates or creates the file, the header row is written
ClHeader(p) ==
    /\ clPc[p] = "cl_header"
    /\ clFile' = <<HeaderRow>>
    /\ clPc' = [clPc EXCEPT ![p] = "cl_next"]
    /\ UNCHANGED <<clNext, clCount, clSaved, clOtherVars>>

\* line 625: next_id = _get_next_change_id()
ClNextId(p) ==
    /\ clPc[p] = "cl_next"
    /\ clNext' = [clNext EXCEPT ![p] = GetNextChangeId(clFile)]
    /\ clPc' = [clPc EXCEPT ![p] = "cl_append"]
    /\ UNCHANGED <<clFile, clCount, clSaved, clOtherVars>>

\* lines 628-636: open("a") and one row written; _append_blueprint_change
\* returns to line 517
ClAppend(p) ==
    /\ clPc[p] = "cl_append"
    /\ clFile' = (IF clFile = NoCsv THEN <<>> ELSE clFile) \o <<clNext[p]>>
    /\ clCount' = [clCount EXCEPT ![p] = @ + 1]
    /\ clNext' = [clNext EXCEPT ![p] = 0]
    /\ clPc' = [clPc EXCEPT ![p] = "cl_write"]
    /\ UNCHANGED <<clSaved, clOtherVars>>

\* line 519: _atomic_write replaces the blueprint.md and save() returns
ClWrite(p) ==
    /\ clPc[p] = "cl_write"
    /\ clSaved' = [clSaved EXCEPT ![p] = @ + 1]
    /\ clPc' = [clPc EXCEPT ![p] = "idle"]
    /\ UNCHANGED <<clFile, clNext, clCount, clOtherVars>>

\* line 519: _atomic_write raises (lines 147-168) and save() raises; nothing
\* on the way out touches the changelog
ClWriteFail(p) ==
    /\ clPc[p] = "cl_write"
    /\ clPc' = [clPc EXCEPT ![p] = "idle"]
    /\ UNCHANGED <<clFile, clNext, clCount, clSaved, clOtherVars>>

\* lines 513-519: save() of a path that is no blueprint.md starts; it does not
\* come near the changelog
ClOtherSaveCall(p) ==
    /\ clPc[p] = "idle"
    /\ clPc' = [clPc EXCEPT ![p] = "other_save"]
    /\ UNCHANGED <<clFile, clNext, clCount, clSaved, clOtherVars>>

\* line 519: that save() returns
ClOtherSaveEnds(p) ==
    /\ clPc[p] = "other_save"
    /\ clPc' = [clPc EXCEPT ![p] = "idle"]
    /\ UNCHANGED <<clFile, clNext, clCount, clSaved, clOtherVars>>

InitCL ==
    /\ InitProcs
    /\ target = Absent
    /\ InitTxn
    /\ IdleBP
    /\ IdleIX
    /\ clFile \in {NoCsv, <<>>}
    /\ clPc = [p \in Savers \cup OtherSavers |-> "idle"]
    /\ clNext = [p \in Savers |-> 0]
    /\ clCount = [p \in Savers |-> 0]
    /\ clSaved = [p \in Savers |-> 0]
    /\ IdleDAS
    /\ IdleEV

NextCL ==
    \/ \E p \in Savers : ClSaveCall(p) \/ ClCheck(p) \/ ClHeader(p) \/ ClNextId(p) \/ ClAppend(p)
    \/ \E p \in Savers : ClWrite(p) \/ ClWriteFail(p)
    \/ \E p \in OtherSavers : ClOtherSaveCall(p) \/ ClOtherSaveEnds(p)

SpecCL == InitCL /\ [][NextCL]_vars

(***************************************************************************)
(* SpecIX: _resolve_path and validate_yaml_schema called with scopes, data *)
(* and schema names drawn from bounded sets, over a memory index that is   *)
(* missing, empty, malformed or a mapping, and is rewritten between calls  *)
(*                                                                         *)
(* A scope is a sequence of tokens, "_f" being a token of its own, so that *)
(* startswith("backlog_f") and split("_f") are computed on the tokens.     *)
(***************************************************************************)
MaxScopeLen == 3

Digits == {"1"}
Scopes ==
    LET Tokens == {"memory_index", "project_status", "blueprint", "_changes",
                   "backlog", "_f", "raw", "1", "x"}
    IN  UNION {[1 .. n -> Tokens] : n \in 0 .. MaxScopeLen}

SchemaNames   == {"blueprint_v2", "project_status_v1", "backlog_v1", "custom_v1"}
IndexFiles ==
    {IndexFile(k, "absent", {}) : k \in {"missing", "empty", "invalid", "list"}}
        \cup {IndexFile("map", ps, ss) : ps \in {"absent", "null", "empty", "full"},
                                         ss \in {{}, {"backlog_v1"}, SchemaNames}}
Datas ==
    {Data(t, c, "absent", "good") : t \in {"dict", "str", "list"}, c \in BOOLEAN}
        \cup {Data("dict", c, h, ts) : c \in BOOLEAN, h \in {"mapping", "list"},
                                       ts \in {"good", "no_id", "bad_status", "bad_priority"}}

\* lines 673-679: what _load_memory_index raises ("none": it returns)
IndexRaises(cache, file) ==
    IF cache # NoCache THEN "none"
    ELSE IF file.kind = "missing" THEN "FileNotFoundError"
    ELSE IF file.kind = "invalid" THEN "YAMLError"
    ELSE "none"

\* _load_memory_index reading memory_index.yaml at every call
IndexLoaded_Reload(cache, file) ==
    IF file.kind \in {"list", "map"} THEN file ELSE NoCache

\* lines 673-679: the cache after _load_memory_index, which is also what it
\* returns (NoCache for None)
IndexLoaded(cache, file) ==
    IF cache # NoCache THEN cache
    ELSE IF file.kind \in {"list", "map"} THEN file
    ELSE NoCache

\* a resolved path: the file or the paths key it stands for, where its location
\* comes from (MEMORY_DIR itself, the value the index gives for the key, or the
\* default of the .get), and the phase of a backlog file
Path(what, base, phase) == [kind |-> "path", what |-> what, base |-> base, phase |-> phase]
Raise(what) == [kind |-> "raise", what |-> what, base |-> "", phase |-> <<>>]
Bool(b)     == [kind |-> "bool", what |-> IF b THEN "True" ELSE "False", base |-> "",
                phase |-> <<>>]

\* scope.startswith("backlog_f")
IsBacklogF(scope) == Len(scope) >= 2 /\ scope[1] = "backlog" /\ scope[2] = "_f"

\* scope.split("_f")[1] of a scope that starts with "backlog_f"
PhaseOf(scope) ==
    LET more == {i \in 3 .. Len(scope) : scope[i] = "_f"} IN
    IF more = {} THEN SubSeq(scope, 3, Len(scope))
    ELSE SubSeq(scope, 3, (CHOOSE i \in more : \A j \in more : i <= j) - 1)

\* lines 681-722: _resolve_path(scope) of a str scope
ResolvePath(scope, cache, file) ==
    IF scope = <<"memory_index">> THEN Path("memory_index.yaml", "MEMORY_DIR", <<>>)
    ELSE IF scope = <<"project_status">> THEN Path("project_status.md", "MEMORY_DIR", <<>>)
    ELSE IF IndexRaises(cache, file) # "none" THEN Raise(IndexRaises(cache, file))
    ELSE LET index == IndexLoaded(cache, file)
             base  == IF index.paths = "full" THEN "index" ELSE "default"
         IN
         IF index.kind # "map" THEN Raise("AttributeError")
         ELSE IF scope = <<"blueprint">>
            THEN IF index.paths = "null" THEN Raise("AttributeError")
                 ELSE Path("blueprint_yaml", base, <<>>)
         ELSE IF scope = <<"blueprint", "_changes">>
            THEN IF index.paths = "null" THEN Raise("AttributeError")
                 ELSE Path("blueprint_changes", base, <<>>)
         ELSE IF IsBacklogF(scope)
            THEN IF index.paths = "null" THEN Raise("AttributeError")
                 ELSE Path("backlog_modular", base, PhaseOf(scope))
         ELSE Raise("ValueError")


\* ValidateYamlSchema rejecting what it has no schema for, the except block of
\* lines 307-309 included
ValidateYamlSchema_Strict(data, name, cache, file) ==
    IF IndexRaises(cache, file) # "none" THEN FALSE
    ELSE LET index == IndexLoaded(cache, file) IN
         IF index.kind # "map" THEN FALSE
         ELSE IF name \notin index.schemas THEN FALSE
         ELSE TRUE

\* lines 248-309: validate_yaml_schema(data, schema_name)
ValidateYamlSchema(data, name, cache, file) ==
    IF IndexRaises(cache, file) # "none" THEN TRUE
    ELSE LET index == IndexLoaded(cache, file) IN
         IF index.kind # "map" THEN TRUE
         ELSE IF name \notin index.schemas THEN TRUE
         ELSE IF name = "blueprint_v2" THEN data.type = "dict" /\ data.complete
         ELSE IF name = "project_status_v1" THEN data.type = "str" /\ data.complete
         ELSE IF name = "backlog_v1"
            THEN /\ data.type = "dict"
                 /\ data.complete
                 \* line 285: .items() of a list raises AttributeError, and the
                 \* except block of lines 307-309 returns True
                 /\ \/ data.historias \in {"absent", "list"}
                    \/ data.tasks = "good"
         ELSE TRUE

ixOtherVars == <<procVars, fileVars, lockVars, txnVars, bpVars, clVars, dasVars, evVars>>

\* a call of _resolve_path(scope)
IxResolve(scope) ==
    /\ ixArg = NoArg
    /\ ixArg' = [NoArg EXCEPT !.op = "resolve", !.scope = scope]
    /\ ixRet' = ResolvePath(scope, ixCache, ixFile)
    \* _resolve_path gets as far as calling _load_memory_index (line 693)
    /\ ixCache' = IF /\ scope \notin {<<"memory_index">>, <<"project_status">>}
                     /\ IndexRaises(ixCache, ixFile) = "none"
                     THEN IndexLoaded(ixCache, ixFile) ELSE ixCache
    /\ UNCHANGED <<ixFile, ixOtherVars>>

\* a call of validate_yaml_schema(data, name)
IxValidate(data, name) ==
    /\ ixArg = NoArg
    /\ ixArg' = [NoArg EXCEPT !.op = "validate", !.schema = name, !.data = data]
    /\ ixRet' = Bool(ValidateYamlSchema(data, name, ixCache, ixFile))
    /\ ixCache' = IF IndexRaises(ixCache, ixFile) = "none"
                     THEN IndexLoaded(ixCache, ixFile) ELSE ixCache
    /\ UNCHANGED <<ixFile, ixOtherVars>>

\* memory_index.yaml is rewritten (lines 834, or an editor) between two calls
IxRewrite(file) ==
    /\ ixArg = NoArg
    /\ file # ixFile
    /\ ixFile' = file
    /\ UNCHANGED <<ixCache, ixArg, ixRet, ixOtherVars>>

\* the caller has taken the call's outcome and goes on
IxReturn ==
    /\ ixArg # NoArg
    /\ ixArg' = NoArg
    /\ ixRet' = NoRet
    /\ UNCHANGED <<ixFile, ixCache, ixOtherVars>>

InitIX ==
    /\ InitProcs
    /\ target = Absent
    /\ InitTxn
    /\ IdleBP
    /\ IdleCL
    /\ ixFile \in IndexFiles
    /\ ixCache = NoCache
    /\ ixArg = NoArg
    /\ ixRet = NoRet
    /\ IdleDAS
    /\ IdleEV

NextIX ==
    \/ \E scope \in Scopes : IxResolve(scope)
    \/ \E data \in Datas : \E name \in SchemaNames : IxValidate(data, name)
    \/ \E file \in IndexFiles : IxRewrite(file)
    \/ IxReturn

SpecIX == InitIX /\ [][NextIX]_vars

\* SpecMI: the same object called with the scopes that resolve to a path
NextMI ==
    LET Resolvable ==
            {scope \in Scopes :
                ResolvePath(scope, NoCache, IndexFile("map", "full", {})).kind = "path"}
    IN  \/ \E scope \in Resolvable : IxResolve(scope)
        \/ \E data \in Datas : \E name \in SchemaNames : IxValidate(data, name)
        \/ \E file \in IndexFiles : IxRewrite(file)
        \/ IxReturn

SpecMI == InitIX /\ [][NextMI]_vars

(***************************************************************************)
(* SpecDAS: safe_pms_call of one agent (das/enforcer.py:493-587)           *)
(***************************************************************************)
MaxScopeList == 1

PmsModes   == {"update_single", "update_dual"}
AgentConfigs ==
    LET Patterns   == {<<"blueprint">>, <<"backlog_f", "1">>, <<"backlog_f", "*">>, <<"*">>}
        ScopeLists == UNION {[1 .. n -> Patterns] : n \in 0 .. MaxScopeList}
    IN  {AgentConfig(k, <<>>, <<>>, "update_single", TRUE, TRUE) :
            k \in {"missing", "invalid", "empty"}}
          \cup {AgentConfig("map", r, w, md, en, st) :
                  r \in ScopeLists, w \in ScopeLists, md \in PmsModes,
                  en \in BOOLEAN, st \in BOOLEAN}

\* lines 159-177: _scope_matches(scope, allowed_pattern)
ScopeMatches(scope, pattern) ==
    \/ scope = pattern
    \/ /\ pattern # <<>>
       /\ pattern[Len(pattern)] = "*"
       /\ Len(scope) >= Len(pattern) - 1
       /\ SubSeq(scope, 1, Len(pattern) - 1) = SubSeq(pattern, 1, Len(pattern) - 1)

\* lines 133-155: what load_agent_permissions raises ("none": it returns)
PermissionsRaise(cache, config) ==
    IF cache # NoPermissions THEN "none"
    ELSE IF config.kind \in {"missing", "invalid"} THEN "ValueError"
    ELSE IF config.kind = "empty" THEN "AttributeError"
    ELSE "none"

\* lines 133-157: the cache entry after load_agent_permissions, which is what it
\* returns
PermissionsLoaded(cache, config) ==
    IF cache # NoPermissions THEN cache
    ELSE IF config.kind = "map" THEN config
    ELSE NoPermissions

\* lines 239-264: validate_agent_permissions; "True", "False", or the exception
\* it lets through
ValidateAgentPermissions(op, scope, cache, config) ==
    LET raised      == PermissionsRaise(cache, config)
        permissions == PermissionsLoaded(cache, config)
        allowed     == IF op = "load"
                          THEN permissions.read_scopes \o permissions.write_scopes
                          ELSE permissions.write_scopes
    IN  IF raised = "ValueError" THEN "False"
        ELSE IF raised # "none" THEN raised
        ELSE IF ~permissions.enforcement_enabled THEN "True"
        ELSE IF \E i \in 1 .. Len(allowed) : ScopeMatches(scope, allowed[i])
                THEN "True" ELSE "False"

\* lines 549-587: the pms_core call of a permitted operation; pms_core.save
\* (pms_core.py:506-507) refuses every mode but update_dual
PmsCall(op, smode, cache, config, importable) ==
    IF ~importable THEN Outcome("raise", "RuntimeError", "none", "")
    ELSE IF op = "load" THEN Outcome("return", "data", "load", "")
    ELSE LET md == IF smode = "None" THEN PermissionsLoaded(cache, config).mode ELSE smode IN
         IF md = "update_dual" THEN Outcome("return", "None", "save", md)
         ELSE Outcome("raise", "NotImplementedError", "save", md)

\* lines 493-591: safe_pms_call(agent_id, operation, scope, payload, mode) with a
\* payload that is not None
SafePmsCall(op, scope, smode, cache, config, importable) ==
    LET has == ValidateAgentPermissions(op, scope, cache, config) IN
    IF has \notin {"True", "False"} THEN Outcome("raise", has, "none", "")
    ELSE IF has = "False"
            /\ (\/ PermissionsRaise(cache, config) # "none"
                \/ PermissionsLoaded(cache, config).strict_mode)
       THEN Outcome("raise", "PermissionError", "none", "")
    ELSE PmsCall(op, smode, cache, config, importable)

\* agent_load / agent_save (lines 593-628) call safe_pms_call; importable says
\* whether "import pms_core" of line 555 finds a module
DaCall(op, scope, smode, importable) ==
    /\ daCall = NoCall
    /\ LET out == SafePmsCall(op, scope, smode, daCache, daConfig, importable) IN
         /\ daCall' = [op |-> op, scope |-> scope, mode |-> smode,
                       importable |-> importable, out |-> out]
         /\ daTarget' = IF out.kind = "return" /\ out.pms = "save"
                           THEN [daTarget EXCEPT ![scope] = "payload"]
                           ELSE daTarget
    /\ daCache' = IF PermissionsRaise(daCache, daConfig) = "none"
                     THEN PermissionsLoaded(daCache, daConfig) ELSE daCache
    /\ UNCHANGED <<daConfig, procVars, fileVars, lockVars, txnVars, bpVars, clVars, ixVars, evVars>>

\* the caller has taken the outcome; the targets are as before the next call
DaReturn ==
    /\ daCall # NoCall
    /\ daCall' = NoCall
    /\ daTarget' = [sc \in DasScopes |-> "old"]
    /\ UNCHANGED <<daConfig, daCache, procVars, fileVars, lockVars, txnVars, bpVars, clVars, ixVars, evVars>>

InitDAS ==
    /\ InitProcs
    /\ target = Absent
    /\ InitTxn
    /\ IdleBP
    /\ IdleCL
    /\ IdleIX
    /\ IdleEV
    /\ daConfig \in AgentConfigs
    /\ daCache = NoPermissions
    /\ daCall = NoCall
    /\ daTarget = [sc \in DasScopes |-> "old"]

NextDAS ==
    \/ \E op \in {"load", "save"} : \E scope \in DasScopes :
         \E smode \in PmsModes \cup {"None"} : \E importable \in BOOLEAN :
            DaCall(op, scope, smode, importable)
    \/ DaReturn

SpecDAS == InitDAS /\ [][NextDAS]_vars

(***************************************************************************)
(* SpecEV: one EventPublisher, its subscribers and its history             *)
(* (core/event_system.py:149-443)                                          *)
(***************************************************************************)
\* stands for max_history = 1000 (line 202)
MaxHistory  == 2
\* publish calls made by the application
MaxPublish  == 1
\* handlers registered over all subscribers and event types
MaxHandlers == 3
\* largest limit passed to get_recent_events
MaxLimit    == 1

InSeq(x, s) == \E i \in 1 .. Len(s) : s[i] = x

\* list.remove(x): the first occurrence goes
RECURSIVE Remove(_, _)
Remove(s, x) ==
    IF s = <<>> THEN <<>>
    ELSE IF Head(s) = x THEN Tail(s)
    ELSE <<Head(s)>> \o Remove(Tail(s), x)

\* lines 340-348: one task per handler of each active subscriber the event
\* goes to, as often as the subscriber is in the list
RECURSIVE HandlersOf(_, _)
HandlersOf(relevant, t) ==
    IF relevant = <<>> THEN <<>>
    ELSE (IF active[Head(relevant)] THEN subs[Head(relevant)][t] ELSE <<>>)
             \o HandlersOf(Tail(relevant), t)

\* the handlers registered so far, over all subscribers and event types
HandlerCount ==
    Len(subs["s1"]["TASK_STARTED"]) + Len(subs["s1"]["SYSTEM_ERROR"])
        + Len(subs["s2"]["TASK_STARTED"]) + Len(subs["s2"]["SYSTEM_ERROR"])

\* lines 228-254: subscribe(event_type, handler, subscriber); subscriber = None
\* is a subscriber that has no subscriptions yet
Subscribe(t, h, sb) ==
    /\ evCall = NoEvCall
    /\ HandlerCount < MaxHandlers
    /\ subs' = [subs EXCEPT ![sb][t] = Append(@, h)]
    /\ pub' = IF InSeq(sb, pub.subscribers[t]) THEN pub
              ELSE [pub EXCEPT !.subscribers[t] = Append(@, sb),
                               !.stats.subscribers_count = @ + 1]
    /\ UNCHANGED <<evCall, active, permits, task, procVars, fileVars, lockVars, txnVars, bpVars, clVars, ixVars, dasVars>>

\* lines 256-279: subscribe_global(handler, subscriber)
SubscribeGlobal(h, sb) ==
    /\ evCall = NoEvCall
    /\ HandlerCount + Cardinality(EventTypes) <= MaxHandlers
    /\ subs' = [subs EXCEPT ![sb] = [t \in EventTypes |-> Append(subs[sb][t], h)]]
    /\ pub' = IF InSeq(sb, pub.global_subscribers) THEN pub
              ELSE [pub EXCEPT !.global_subscribers = Append(@, sb),
                               !.stats.subscribers_count = @ + 1]
    /\ UNCHANGED <<evCall, active, permits, task, procVars, fileVars, lockVars, txnVars, bpVars, clVars, ixVars, dasVars>>

\* lines 281-293: unsubscribe(subscriber)
Unsubscribe(sb) ==
    /\ evCall = NoEvCall
    /\ pub' = [pub EXCEPT
                 !.subscribers = [t \in EventTypes |-> Remove(pub.subscribers[t], sb)],
                 !.global_subscribers = Remove(@, sb),
                 !.stats.subscribers_count = IF @ - 1 > 0 THEN @ - 1 ELSE 0]
    /\ UNCHANGED <<subs, evCall, active, permits, task, procVars, fileVars, lockVars, txnVars, bpVars, clVars, ixVars, dasVars>>

\* lines 181-187: activate() and deactivate() of a subscriber
SetActive(sb, on) ==
    /\ evCall = NoEvCall
    /\ active[sb] # on
    /\ active' = [active EXCEPT ![sb] = on]
    /\ UNCHANGED <<pub, subs, evCall, permits, task, procVars, fileVars, lockVars, txnVars, bpVars, clVars, ixVars, dasVars>>

\* lines 316-326: the subscribers an event goes to, those of its type first
RelevantSubscribers(p, t) == p.subscribers[t] \o p.global_subscribers

\* lines 303-310: the event is counted and joins the history, the oldest event
\* leaves it; event_id is unique (line 107), n is the number of the publication
Recorded(p, t) ==
    LET h == Append(p.event_history, [event_type |-> t, n |-> p.stats.events_published + 1])
    IN  [p EXCEPT !.stats.events_published = @ + 1,
                  !.event_history = IF Len(h) > MaxHistory THEN Tail(h) ELSE h]

\* lines 295-334 (publish), 336-358 (_process_event) and 360-392
\* (_handle_event_safely): the publisher after publish(event) has returned.
\* A function that raises is caught at line 370, publishes a SYSTEM_ERROR event
\* (unless it was handling one) and its task ends without an exception; a
\* callable without __name__ raises again at line 371 and its task fails.
RECURSIVE PublishEvent(_, _), HandleEvents(_, _, _)
PublishEvent(p, t) ==
    IF p.shutdown THEN p
    ELSE LET p1 == Recorded(p, t)
         IN  HandleEvents(p1, HandlersOf(RelevantSubscribers(p1, t), t), t)

HandleEvents(p, hs, t) ==
    IF hs = <<>> THEN p
    ELSE LET h  == Head(hs)
             p1 == IF h = "failing" /\ t # "SYSTEM_ERROR"
                      THEN PublishEvent(p, "SYSTEM_ERROR") ELSE p
             p2 == IF h = "unnamed"
                      THEN [p1 EXCEPT !.stats.events_failed = @ + 1]
                      ELSE [p1 EXCEPT !.stats.events_processed = @ + 1]
         IN  HandleEvents(p2, Tail(hs), t)

\* the handlers invoked during publish(event), in the order of their tasks,
\* those for the SYSTEM_ERROR events it publishes included
RECURSIVE InvokedBy(_, _, _)
InvokedBy(hs, es, t) ==
    IF hs = <<>> THEN <<>>
    ELSE (IF Head(hs) = "failing" /\ t # "SYSTEM_ERROR" THEN es ELSE <<>>)
             \o <<Head(hs)>> \o InvokedBy(Tail(hs), es, t)

Publish(t) ==
    /\ evCall = NoEvCall
    /\ pub.stats.events_published < MaxPublish
    /\ pub' = PublishEvent(pub, t)
    /\ evCall' = [NoEvCall EXCEPT
                    !.op = "publish", !.type = t,
                    !.invoked =
                        IF pub.shutdown THEN <<>>
                        ELSE InvokedBy(HandlersOf(RelevantSubscribers(pub, t), t),
                                       HandlersOf(RelevantSubscribers(pub, "SYSTEM_ERROR"),
                                                  "SYSTEM_ERROR"), t),
                    !.failedBefore = pub.stats.events_failed,
                    !.handledBefore = pub.stats.events_failed + pub.stats.events_processed]
    /\ UNCHANGED <<subs, active, permits, task, procVars, fileVars, lockVars, txnVars, bpVars, clVars, ixVars, dasVars>>

RECURSIVE OfType(_, _)
OfType(events, t) ==
    IF events = <<>> THEN <<>>
    ELSE (IF Head(events).event_type = t THEN <<Head(events)>> ELSE <<>>)
             \o OfType(Tail(events), t)

\* lines 413-429: get_recent_events(limit, event_type)
GetRecentEvents(limit, t) ==
    /\ evCall = NoEvCall
    /\ LET events == IF t = "None" THEN pub.event_history
                     ELSE OfType(pub.event_history, t)
       IN  evCall' = [NoEvCall EXCEPT
                        !.op = "get_recent_events", !.limit = limit, !.type = t,
                        \* line 429: events[-limit:] if events else []
                        !.ret = IF events = <<>> \/ limit = 0 THEN events
                                ELSE SubSeq(events,
                                            (IF Len(events) > limit
                                                THEN Len(events) - limit ELSE 0) + 1,
                                            Len(events))]
    /\ UNCHANGED <<pub, subs, active, permits, task, procVars, fileVars, lockVars, txnVars, bpVars, clVars, ixVars, dasVars>>

\* lines 431-443: shutdown()
Shutdown ==
    /\ evCall = NoEvCall
    /\ ~pub.shutdown
    /\ pub' = [pub EXCEPT !.shutdown = TRUE,
                          !.subscribers = [t \in EventTypes |-> <<>>],
                          !.global_subscribers = <<>>,
                          !.stats.subscribers_count = 0]
    /\ UNCHANGED <<subs, evCall, active, permits, task, procVars, fileVars, lockVars, txnVars, bpVars, clVars, ixVars, dasVars>>

\* the caller has taken what publish or get_recent_events gave it
EvReturn ==
    /\ evCall # NoEvCall
    /\ evCall' = NoEvCall
    /\ UNCHANGED <<pub, subs, active, permits, task, procVars, fileVars, lockVars, txnVars, bpVars, clVars, ixVars, dasVars>>

InitEV ==
    /\ InitProcs
    /\ target = Absent
    /\ InitTxn
    /\ IdleBP
    /\ IdleCL
    /\ IdleIX
    /\ IdleDAS
    /\ IdleEV

NextEV ==
    \/ \E t \in EventTypes : \E h \in Handlers : \E sb \in EvSubscribers : Subscribe(t, h, sb)
    \/ \E h \in Handlers : \E sb \in EvSubscribers : SubscribeGlobal(h, sb)
    \/ \E sb \in EvSubscribers : Unsubscribe(sb)
    \/ \E sb \in EvSubscribers : \E on \in BOOLEAN : SetActive(sb, on)
    \/ \E t \in EventTypes : Publish(t)
    \/ \E limit \in 0 .. MaxLimit : \E t \in EventTypes \cup {"None"} : GetRecentEvents(limit, t)
    \/ Shutdown
    \/ EvReturn

SpecEV == InitEV /\ [][NextEV]_vars

(***************************************************************************)
(* SpecSEM: concurrent publish calls of TASK_STARTED events on a publisher *)
(* with few permits (core/event_system.py:295-392), step by step.  The     *)
(* registry is fixed: s1 has one handler for TASK_STARTED, s2 may have one *)
(* for SYSTEM_ERROR.                                                       *)
(***************************************************************************)
\* largest max_concurrent_events
MaxConcurrent == 2

semOtherVars == <<subs, active, evCall, procVars, fileVars, lockVars, txnVars, bpVars, clVars, ixVars, dasVars>>

\* lines 299-328: publish(event) up to the semaphore, on a publisher that is
\* not shut down; it returns at once when nobody subscribed to the event
SemPublish(c) ==
    /\ task[c] = "idle"
    /\ ~pub.shutdown
    /\ pub' = Recorded(pub, "TASK_STARTED")
    /\ task' = [task EXCEPT ![c] = IF RelevantSubscribers(pub, "TASK_STARTED") = <<>>
                                      THEN "returned" ELSE "wait"]
    /\ UNCHANGED <<permits, semOtherVars>>

\* line 331: async with self._semaphore gets a permit
SemAcquire(c) ==
    /\ task[c] = "wait"
    /\ permits > 0
    /\ permits' = permits - 1
    /\ task' = [task EXCEPT ![c] = "handling"]
    /\ UNCHANGED <<pub, semOtherVars>>

\* lines 332-392: the handler of the event runs.  One that returns, or that
\* fails at line 371, ends the call: the result is counted and the permit given
\* back.  One that raises publishes a SYSTEM_ERROR event (line 392), which
\* returns at once when nobody subscribed to it and waits for a permit otherwise.
SemHandle(c) ==
    /\ task[c] = "handling"
    /\ LET h == Head(HandlersOf(RelevantSubscribers(pub, "TASK_STARTED"), "TASK_STARTED"))
           p == IF h = "failing" THEN Recorded(pub, "SYSTEM_ERROR") ELSE pub
       IN  IF h = "failing" /\ RelevantSubscribers(pub, "SYSTEM_ERROR") # <<>>
              THEN /\ pub' = p
                   /\ task' = [task EXCEPT ![c] = "nested_wait"]
                   /\ UNCHANGED permits
              ELSE /\ pub' = IF h = "unnamed"
                                THEN [p EXCEPT !.stats.events_failed = @ + 1]
                                ELSE [p EXCEPT !.stats.events_processed = @ + 1]
                   /\ permits' = permits + 1
                   /\ task' = [task EXCEPT ![c] = "returned"]
    /\ UNCHANGED semOtherVars

\* line 331 in the publish of the SYSTEM_ERROR event, called from the handler's
\* task while the outer publish keeps its permit
SemNestedAcquire(c) ==
    /\ task[c] = "nested_wait"
    /\ permits > 0
    /\ permits' = permits - 1
    /\ task' = [task EXCEPT ![c] = "nested_handling"]
    /\ UNCHANGED <<pub, semOtherVars>>

\* lines 332-358 for the SYSTEM_ERROR event, whose handlers publish nothing, then
\* the end of the handler's task and of the outer publish: both permits go back
SemNestedDone(c) ==
    /\ task[c] = "nested_handling"
    /\ pub' = [pub EXCEPT !.stats.events_processed =
                  @ + 1 + Len(HandlersOf(RelevantSubscribers(pub, "SYSTEM_ERROR"), "SYSTEM_ERROR"))]
    /\ permits' = permits + 2
    /\ task' = [task EXCEPT ![c] = "returned"]
    /\ UNCHANGED semOtherVars

InitSEM ==
    /\ InitProcs
    /\ target = Absent
    /\ InitTxn
    /\ IdleBP
    /\ IdleCL
    /\ IdleIX
    /\ IdleDAS
    /\ active = [sb \in EvSubscribers |-> TRUE]
    /\ evCall = NoEvCall
    /\ \E h \in Handlers : \E errors \in {<<>>, <<"s2">>} :
          /\ subs = [sb \in EvSubscribers |->
                       [t \in EventTypes |->
                           IF sb = "s1" /\ t = "TASK_STARTED" THEN <<h>>
                           ELSE IF sb = "s2" /\ t = "SYSTEM_ERROR" /\ errors # <<>> THEN <<"good">>
                           ELSE <<>>]]
          /\ pub = [NewPublisher EXCEPT
                       !.subscribers = [t \in EventTypes |->
                                          IF t = "TASK_STARTED" THEN <<"s1">> ELSE errors],
                       !.stats.subscribers_count = 1 + Len(errors)]
    /\ permits \in 1 .. MaxConcurrent
    /\ task = [c \in Calls |-> "idle"]

NextSEM ==
    \/ \E c \in Calls : SemPublish(c) \/ SemAcquire(c) \/ SemHandle(c)
    \/ \E c \in Calls : SemNestedAcquire(c) \/ SemNestedDone(c)

SpecSEM == InitSEM /\ [][NextSEM]_vars

\* the event loop runs every task that can run, and the semaphore wakes its
\* waiters in turn
FairSEM ==
    /\ SpecSEM
    /\ \A c \in Calls : /\ WF_vars(SemHandle(c))
                         /\ WF_vars(SemNestedDone(c))
                         /\ SF_vars(SemAcquire(c))
                         /\ SF_vars(SemNestedAcquire(c))

(***************************************************************************)
(* Properties of Spec                                                      *)
(***************************************************************************)
WholeDocs == {DocA, DocB, DocC, DocBad}

\* C1: for every interleaving of processes calling save() on the same target path,
\* at most one process at a time is inside the locked section of _with_file_lock.
C1_MutualExclusion ==
    Cardinality({p \in Procs : pc[p] \in InLockedSection}) <= 1

\* C2: the target path never holds a partially written payload, and a load() racing
\* any number of save() calls reads a complete content: the one the target held
\* before a save or the complete payload of a save.
C2_LoadSeesWholeContent ==
    /\ target \in WholeDocs \cup {Absent}
    /\ \A p \in Readers : loaded[p] \in WholeDocs \cup {NotLoaded}

\* a load() has returned the payload of one save() while another save() is in the
\* middle of writing a different payload to its temporary file
C2_Witness ==
    \E r \in Readers : \E w \in Writers :
        /\ result[r] = "ok"
        /\ loaded[r] \in SavePayloads
        /\ pc[w] = "aw_write"
        /\ Len(tmpfile[w]) = 1
        /\ payload[w] # loaded[r]

\* C12: every step of _atomic_write other than a successful os.replace, its
\* failures included, leaves the target's existence and content as they were.
C12_TargetUntouchedBeforeReplace ==
    [][\A p \in Writers :
          (/\ pc[p] \in InLockedSection
           /\ pc'[p] # pc[p] \/ tmpfile'[p] # tmpfile[p]
           /\ ~(pc[p] = "aw_replace" /\ exc'[p] = "none"))
             => target' = target]_vars

\* a write failed after its temporary file was created, over an existing target
C12_Witness ==
    \E p \in Writers :
        /\ pc[p] = "lk_close"
        /\ exc[p] # "none"
        /\ tmpOrphan
        /\ target = DocA

\* C13: with writers racing save() on one target, every change of the target
\* installs exactly the payload of one call, and once both writers' calls have
\* completed the target holds exactly one call's payload, never a mixture.
C13_OnePayloadWins ==
    /\ []((\A w \in Writers : pc[w] = "idle" /\ result[w] = "ok")
             => target \in SavePayloads)
    /\ [][target' # target
             => \E w \in Writers : /\ pc[w] = "aw_replace"
                                   /\ target' = payload[w]
                                   /\ target' \in SavePayloads]_vars

\* two writers given different payloads were inside save() together and both
\* have replaced the target; the target holds the later one's payload
C13_Witness ==
    \E w \in Writers : \E v \in Writers \ {w} :
        /\ pc[w] = "lk_close" /\ exc[w] = "none"
        /\ pc[v] \in {"lk_close", "lk_unlink"} /\ exc[v] = "none"
        /\ payload[v] # payload[w]
        /\ target = payload[w]

\* C14: a caller of save() enters the locked section only by the step in which
\* its flock succeeds and holds that flock while it is there; a caller whose wait
\* times out gets LockTimeoutError, has created no temporary file and changes
\* neither the target nor any temporary file.
C14_NoLockNoWrite ==
    /\ [](\A p \in Writers :
            /\ pc[p] \in InLockedSection
                  => fd[p] # NoInode /\ flockHolder[fd[p]] = p
            /\ pc[p] \in {"lk_open", "lk_flock", "lk_sleep"} => tmpfile[p] = Absent)
    /\ [][\A p \in Writers :
            /\ (pc[p] \notin InLockedSection /\ pc'[p] \in InLockedSection)
                  => /\ pc[p] = "lk_flock"
                     /\ flockHolder[fd[p]] = NoProc
                     /\ flockHolder'[fd[p]] = p
            /\ (pc[p] = "lk_sleep" /\ pc'[p] = "idle")
                  => /\ result'[p] = "LockTimeoutError"
                     /\ UNCHANGED fileVars]_vars

\* a writer's save() has ended in LockTimeoutError while the other writer is
\* still inside the locked section
C14_Witness ==
    \E p \in Writers : \E q \in Writers \ {p} :
        /\ pc[p] = "idle"
        /\ result[p] = "LockTimeoutError"
        /\ pc[q] \in InLockedSection

\* C19: no step of load() changes the target, a temporary file, the lock
\* sentinel or a lock on it, the changelog, a transaction record or a backup;
\* what a load returns is determined by what the target holds when it is read,
\* so that two loads of an unchanged target return equal results.
C19_LoadChangesNothing ==
    [][\A p \in Readers :
          pc'[p] # pc[p]
             => /\ UNCHANGED <<fileVars, lockVars, txnVars, clVars>>
                /\ pc'[p] = "idle"
                      => /\ result'[p] = LoadOutcome(target).result
                         /\ loaded'[p] = LoadOutcome(target).loaded]_vars

\* a load() has returned the target's content while a writer, holding the lock
\* on a sentinel file, has its temporary file written and not yet installed
C19_Witness ==
    \E r \in Readers : \E w \in Writers :
        /\ pc[r] = "idle"
        /\ result[r] = "ok"
        /\ loaded[r] = target
        /\ pc[w] = "aw_replace"
        /\ lockEntry # NoInode
        /\ tmpfile[w] = payload[w]
        /\ target # payload[w]

\* C30: a step at which _atomic_write fails leaves no temporary file of that
\* call, neither under the name it knows nor as a file nothing refers to.
\* Violated: when fh.write raises, tmp_path is not yet assigned and the file
\* NamedTemporaryFile created stays in the temp directory.
C30_NoTempFileAfterFailure ==
    [][\A p \in Writers :
          (pc[p] \in InLockedSection /\ exc[p] = "none" /\ exc'[p] # "none")
              => /\ tmpfile'[p] = Absent
                 /\ tmpOrphan' = tmpOrphan]_vars

(***************************************************************************)
(* Properties of SpecLK                                                    *)
(***************************************************************************)
\* the error kinds of _atomic_write: lines 134 and 140, and lines 163-168
MkdirErrorKind  == "PMSCoreError: Cannot create directory"
WriteErrorKinds == {Classify(e) : e \in Errnos}

\* C21: every failure of _atomic_write leaves it as one of four distinct kinds
\* of PMSCoreError: disk full for ENOSPC, permission denied for a permission
\* failure on the target, failed to write for any other OS failure, and a kind
\* of its own for a directory that cannot be created.
C21_FailureKinds ==
    /\ [](/\ Cardinality(WriteErrorKinds) = Cardinality(Errnos)
          /\ MkdirErrorKind \notin WriteErrorKinds)
    /\ [][\A p \in Writers :
            (pc[p] \in InLockedSection /\ exc[p] = "none" /\ exc'[p] # "none")
                => /\ exc'[p] \in WriteErrorKinds \cup {MkdirErrorKind}
                   /\ pc[p] = "aw_check" => exc'[p] = Classify("EACCES")]_vars

\* C28: once a save() has ended, normally or by an exception, its process holds
\* no flock, and when no save() is running the sentinel file is gone.
\* Violated: after an OSError in the locked section the lock is taken a second
\* time and kept by the suspended generator when save() has ended.
C28_LockReleasedAtExit ==
    /\ \A p \in Writers : pc[p] = "idle" => \A i \in Inodes : flockHolder[i] # p
    /\ (\A p \in Writers : pc[p] = "idle") => lockEntry = NoInode

\* C29: a save() whose locked section raised ends with the error that was
\* raised there.
\* Violated: the OSError is caught by the retry loop of _with_file_lock and
\* save() ends with RuntimeError or LockTimeoutError.
C29_BodyErrorReachesCaller ==
    [][\A p \in Writers :
          (exc[p] # "none" /\ pc[p] # "idle" /\ pc'[p] = "idle")
              => result'[p] = ErrorClass(exc[p])]_vars

\* C36: an acquisition attempt that ends in LockTimeoutError leaves the sentinel
\* file and every flock as they were.
\* Violated: the finally block of the attempt that timed out unlinks the
\* sentinel of the holder, and the next attempt locks a new file.
C36_TimeoutLeavesLockUntouched ==
    [][\A p \in Writers :
          (pc[p] = "lk_sleep" /\ pc'[p] = "idle" /\ result'[p] = "LockTimeoutError")
              => /\ lockEntry' = lockEntry
                 /\ flockHolder' = flockHolder]_vars

(***************************************************************************)
(* Properties of SpecFB                                                    *)
(***************************************************************************)
\* C33: without fcntl and msvcrt an acquisition attempt is refused only while
\* another process holds the lock: a refusal at the existence check happens only
\* when another writer is inside the with-block or releasing it.
\* Violated: line 85 has just created the sentinel the check of line 96 looks
\* for, so a writer that is alone is refused at every attempt and times out.
C33_FallbackRefusedOnlyByHolder ==
    [][\A p \in Writers :
          (pc[p] = "lk_flock" /\ pc'[p] = "lk_sleep")
             => \E q \in Writers \ {p} : pc[q] \in InLockedSection \cup {"lk_close", "lk_unlink"}]_vars

(***************************************************************************)
(* Properties of SpecTxn                                                   *)
(***************************************************************************)
\* C3: in every reachable state of a transactional save that began on a whole
\* (or absent) target, rollback steps included, a reader of the target path finds
\* a whole earlier or a whole written version of the file, never a partially
\* written one.
C3_NoTornTarget ==
    \A p \in TxnProcs :
        (mode[p] = "txn" /\ txlog[cur[p]].pre \in WholeDocs \cup {Absent})
            => target \in WholeDocs \cup {Absent}

\* C4: begin_transaction on a target holding A, then writes to the target, then
\* rollback_transaction: when the rollback returns, the target holds exactly A,
\* the backup file is gone and the transaction is rolled_back.
C4_RollbackRestoresExisting ==
    \A p \in TxnProcs :
        (/\ pc[p] = "rb_return"
         /\ rb[p].wasActive
         /\ txlog[rb[p].txn].pre # Absent)
        => /\ target = txlog[rb[p].txn].pre
           /\ backup[rb[p].txn] = Absent
           /\ txlog[rb[p].txn].status = "rolled_back"

\* the first rollback of a transaction begun on an existing target returns, and
\* the target held another whole document when the rollback was called
C4_Witness ==
    \E p \in TxnProcs :
        /\ pc[p] = "rb_return"
        /\ rb[p].wasActive
        /\ txlog[rb[p].txn].pre \in WholeDocs
        /\ rb[p].entry \in WholeDocs \ {txlog[rb[p].txn].pre}
        /\ target = txlog[rb[p].txn].pre

\* C5: begin_transaction while the target does not exist, then a write creating
\* the target, then rollback_transaction: when the rollback returns, the target
\* is absent again and the transaction is rolled_back.
C5_RollbackRemovesNew ==
    \A p \in TxnProcs :
        (/\ pc[p] = "rb_return"
         /\ rb[p].wasActive
         /\ txlog[rb[p].txn].pre = Absent)
        => /\ target = Absent
           /\ txlog[rb[p].txn].status = "rolled_back"

\* the first rollback of a transaction begun without a target returns, and the
\* target existed when the rollback was called
C5_Witness ==
    \E p \in TxnProcs :
        /\ pc[p] = "rb_return"
        /\ rb[p].wasActive
        /\ txlog[rb[p].txn].pre = Absent
        /\ rb[p].entry \in WholeDocs
        /\ target = Absent

\* C9: when PMSCore.save returns or raises, the transaction it began is committed,
\* rolled_back or failed_rollback, never active, whichever step failed.
C9_SaveLeavesNoActiveTxn ==
    [][\A p \in TxnProcs :
          (mode[p] = "txn" /\ mode'[p] = "plain") => txlog'[cur[p]].status \in Terminal]_vars

\* PMSCore.save is about to raise after its last rollback failed
C9_Witness ==
    \E p \in TxnProcs :
        /\ mode[p] = "txn"
        /\ pc[p] = "rb_raise"
        /\ rb[p].ret = "sv_except"
        /\ txlog[cur[p]].status = "failed_rollback"

\* C10: once a transaction is committed, rolled_back or failed_rollback, no
\* operation changes its status again.
C10_TerminalIsFinal ==
    [][\A i \in DOMAIN txlog :
          txlog[i].status \in Terminal => txlog'[i].status = txlog[i].status]_vars


\* C11: when the integrity check of commit_transaction fails on an active
\* transaction, the rollback it runs returns with the target as it was before
\* the transaction and the record rolled_back; the error leaves
\* commit_transaction only after a rollback, with the record rolled_back or
\* failed_rollback; PMSCore.save's commit raises with the target restored when
\* its last rollback returned; and a record becomes committed only in the step
\* that follows a passed check.
C11_FailedCommitRollsBack ==
    /\ [](\A p \in TxnProcs :
            /\ (pc[p] = "rb_return" /\ rb[p].ret = "cm_invalid" /\ rb[p].wasActive)
                  => /\ target = txlog[rb[p].txn].pre
                     /\ txlog[rb[p].txn].status = "rolled_back"
            /\ (mode[p] = "txn" /\ pc[p] = "rb_return" /\ rb[p].ret = "cm_except")
                  => /\ target = txlog[rb[p].txn].pre
                     /\ txlog[rb[p].txn].status = "rolled_back")
    /\ [][/\ \A p \in TxnProcs :
                (rb[p].ret = "cm_except" /\ pc[p] \in {"rb_return", "rb_raise"}
                    /\ pc'[p] # pc[p])
                   => txlog'[rb[p].txn].status \in {"rolled_back", "failed_rollback"}
          /\ \A p \in TxnProcs :
                (pc[p] \in {"cm_validate", "cm_unlink"} /\ rb'[p] = rb[p])
                   => result'[p] # "PMSCoreError"
          /\ \A i \in DOMAIN txlog :
                (txlog[i].status # "committed" /\ txlog'[i].status = "committed")
                   => ValidateFileIntegrity]_vars

\* PMSCore.save wrote a file the check rejects over the document A; the commit
\* is about to raise after its rollbacks, and the target holds A again
C11_Witness ==
    \E p \in TxnProcs :
        /\ mode[p] = "txn"
        /\ payload[p] = DocBad
        /\ pc[p] = "rb_return"
        /\ rb[p].ret = "cm_except"
        /\ txlog[rb[p].txn].pre = DocA
        /\ target = DocA

\* C20: when rollback_to_version finds a committed transaction, the rollback it
\* runs on the most recent one returns True with the target as it was before
\* that transaction began (the earlier bytes, or absent); when it finds none it
\* returns False and changes no file and no transaction record.  Stated for a
\* target that held a whole document, or was absent, when the call was made.
C20_RollbackToVersionUndoes ==
    /\ [](\A p \in TxnProcs :
            (/\ pc[p] = "rb_return"
             /\ rb[p].ret = "to_version"
             /\ rb[p].entry \in WholeDocs \cup {Absent})
                => target = txlog[rb[p].txn].pre)
    /\ [][\A p \in TxnProcs :
            (/\ pc[p] = "idle"
             /\ result'[p] = "False")
                => /\ \A i \in DOMAIN txlog : txlog[i].status # "committed"
                   /\ UNCHANGED <<fileVars, txnVars>>]_vars

\* C27: every step of a transactional save that creates or deletes the backup,
\* writes the target or restores it is taken by a process that holds the lock.
\* Violated: begin_transaction copies the target before the lock is taken, and
\* commit and rollback run after it was released.
C27_TransactionUnderLock ==
    [][\A p \in TxnProcs :
          (/\ mode[p] = "txn" \/ mode'[p] = "txn"
           /\ pc'[p] # pc[p]
           /\ backup' # backup \/ target' # target)
             => fd[p] # NoInode /\ flockHolder[fd[p]] = p]_vars

\* C38: when no blueprint save is under way the changelog has one row, besides
\* the header, for each blueprint save that replaced its target, and none for a
\* save that failed in _atomic_write.
\* Violated: the row is appended before _atomic_write runs and stays when it
\* fails.
C38_RowsAreCompletedSaves ==
    (\A p \in Savers : clPc[p] = "idle")
        => (IF clFile \in {NoCsv, <<>>} THEN 0 ELSE Len(clFile) - 1)
              = clSaved["w1"] + clSaved["w2"]

(***************************************************************************)
(* Properties of SpecTT                                                    *)
(***************************************************************************)
\* C37: when of two transactional saves of one scope one has committed and the
\* other has been rolled back, the target holds the committed payload.
\* Violated: the rollback copies the backup it took before the other save
\* committed over the committed payload (or unlinks the target).
C37_RollbackSparesCommitted ==
    \A p \in Writers : \A q \in Writers \ {p} :
        (/\ pc[p] = "idle" /\ result[p] = "ok"
         /\ pc[q] = "idle" /\ result[q] = "PMSCoreError"
         /\ Len(txlog) = 2
         /\ {txlog[1].status, txlog[2].status} = {"committed", "rolled_back"})
            => target = IF p = "w1" THEN DocB ELSE DocC

(***************************************************************************)
(* Properties of SpecCL                                                    *)
(***************************************************************************)
\* the appends completed so far
AppendsDone == clCount["w1"] + clCount["w2"]

\* C15: starting from an absent or empty changelog, once N appends have completed
\* and none is under way the file holds the header row and then the ids 1..N in
\* order, whatever other saves are interleaved.
C15_ChangelogIds ==
    (AppendsDone > 0 /\ \A p \in Savers : clPc[p] = "idle")
        => clFile = <<HeaderRow>> \o [i \in 1 .. AppendsDone |-> i]

(***************************************************************************)
(* Properties of SpecIX                                                    *)
(***************************************************************************)
\* the scopes _resolve_path has a branch for: the four names, and "backlog_f"
\* followed by anything
NamedScopes == {<<"memory_index">>, <<"project_status">>, <<"blueprint">>,
                <<"blueprint", "_changes">>}
\* a phase suffix that is a number
Numeric(suffix) == suffix # <<>> /\ \A i \in 1 .. Len(suffix) : suffix[i] \in Digits

\* C16: _resolve_path of a scope that is none of the four names and is not
\* "backlog_f" followed by a number ('backlog' and 'raw' included) raises and
\* never returns a path, whatever the memory index file and the cache hold.
C16_UnknownScopeRaises ==
    (/\ ixArg.op = "resolve"
     /\ ixArg.scope \notin NamedScopes
     /\ ~(/\ IsBacklogF(ixArg.scope)
          /\ Numeric(SubSeq(ixArg.scope, 3, Len(ixArg.scope)))))
        => ixRet.kind = "raise"

\* C17: _resolve_path of 'backlog_f' + suffix raises ValueError whenever the
\* suffix is missing or not a number, and a path it returns is the one of a
\* numeric phase under paths.backlog_modular.
C17_BacklogPhaseChecked ==
    (ixArg.op = "resolve" /\ IsBacklogF(ixArg.scope))
        => /\ ~Numeric(SubSeq(ixArg.scope, 3, Len(ixArg.scope)))
                 => ixRet.kind = "raise"
           /\ ixRet.kind = "path"
                 => /\ ixRet.what = "backlog_modular"
                    /\ Numeric(ixRet.phase)

\* C18: validate_yaml_schema returns True for every data value when the schema
\* name is not registered under schemas in the index the call used (the cached
\* one, or none when it cannot be loaded or is no mapping).
C18_UnregisteredSchemaAccepted ==
    (/\ ixArg.op = "validate"
     /\ ~(ixCache.kind = "map" /\ ixArg.schema \in ixCache.schemas))
        => ixRet = Bool(TRUE)

\* a list was validated against blueprint_v2 while the index registers backlog_v1 only
C18_Witness ==
    /\ ixArg.op = "validate"
    /\ ixArg.schema = "blueprint_v2"
    /\ ixArg.data.type = "list"
    /\ ixCache.kind = "map"
    /\ ixCache.schemas = {"backlog_v1"}
    /\ ixRet = Bool(TRUE)

\* C34: with backlog_v1 registered in the index the call uses,
\* validate_yaml_schema returns True exactly for a mapping that has every
\* required field and whose task records all have id, status and priority with
\* allowed values.
\* Violated: a document whose historias is a list of records is accepted
\* whatever the records hold.
C34_BacklogSchemaEnforced ==
    (/\ ixArg.op = "validate"
     /\ ixArg.schema = "backlog_v1"
     /\ "backlog_v1" \in ixCache.schemas)
        => ixRet = Bool(/\ ixArg.data.type = "dict"
                        /\ ixArg.data.complete
                        /\ \/ ixArg.data.historias = "absent"
                           \/ ixArg.data.tasks = "good")

\* C32: once the memory index is loaded, the cache keeps that index whatever is
\* written to memory_index.yaml afterwards, and every later _resolve_path gives
\* what the loaded index resolves the scope to.
C32_LoadedIndexPersists ==
    [][ixCache # NoCache
        => /\ ixCache' = ixCache
           /\ (ixArg = NoArg /\ ixArg'.op = "resolve")
                 => ixRet' = ResolvePath(ixArg'.scope, NoCache, ixCache)]_vars

\* C32: a scope has resolved to the path of the loaded index while
\* memory_index.yaml, rewritten since, gives no path for it.
C32_Witness ==
    /\ ixCache # NoCache
    /\ ixFile # ixCache
    /\ ixFile.paths # "full"
    /\ ixArg.op = "resolve"
    /\ ixRet.kind = "path"
    /\ ixRet.base = "index"

(***************************************************************************)
(* Properties of SpecDAS                                                   *)
(***************************************************************************)
\* the operation is permitted by the scopes of the agent's config: a save by a
\* matching write scope, a load by a matching read or write scope
ScopesPermit(config, op, scope) ==
    /\ config.kind = "map"
    /\ \/ \E i \in 1 .. Len(config.write_scopes) : ScopeMatches(scope, config.write_scopes[i])
       \/ /\ op = "load"
          /\ \E i \in 1 .. Len(config.read_scopes) : ScopeMatches(scope, config.read_scopes[i])

\* C22: in strict mode, with enforcement not switched off, a safe_pms_call the
\* agent's scopes do not permit raises PermissionError and invokes neither
\* pms_core.load nor pms_core.save.
C22_DeniedNeverReachesPms ==
    (/\ daCall.op # "none"
     /\ daConfig.kind # "map" \/ daConfig.strict_mode
     /\ daConfig.enforcement_enabled
     /\ ~ScopesPermit(daConfig, daCall.op, daCall.scope))
        => /\ daCall.out.kind = "raise"
           /\ daCall.out.what = "PermissionError"
           /\ daCall.out.pms = "none"

\* C23: agent_save without a mode override, permitted by a write scope of the
\* agent, with pms_core importable, returns the save's result and the target
\* holds the payload.
C23_PermittedSaveCompletes ==
    (/\ daCall.op = "save"
     /\ daCall.mode = "None"
     /\ daCall.importable
     /\ ScopesPermit(daConfig, "save", daCall.scope))
        => /\ daCall.out.kind = "return"
           /\ daCall.out.pms = "save"
           /\ daTarget[daCall.scope] = "payload"

(***************************************************************************)
(* Properties of SpecEV                                                    *)
(***************************************************************************)
\* C24: the history holds the last max_history published events in the order
\* of their publication, and get_recent_events(limit, event_type) returns the
\* last events of the (filtered) history, in order, never more than limit.
\* Violated: limit = 0 returns the whole history.
C24_HistoryAndRecentEvents ==
    /\ Len(pub.event_history) <= MaxHistory
    /\ \A i \in 1 .. Len(pub.event_history) :
          pub.event_history[i].n = pub.stats.events_published - Len(pub.event_history) + i
    /\ evCall.op = "get_recent_events" =>
          LET events == IF evCall.type = "None" THEN pub.event_history
                        ELSE OfType(pub.event_history, evCall.type)
              first == (IF Len(events) > evCall.limit
                           THEN Len(events) - evCall.limit ELSE 0) + 1
          IN  /\ evCall.ret = SubSeq(events, first, Len(events))
              /\ Len(evCall.ret) <= evCall.limit

\* C25: when publish has returned, every handler registered for the event has
\* been invoked and accounted for, and events_failed has grown by at least
\* the number of invocations that raised.
\* Violated: a handler function that raises is counted in events_processed.
C25_RaisingHandlersCounted ==
    evCall.op = "publish" =>
        /\ pub.stats.events_failed + pub.stats.events_processed
              = evCall.handledBefore + Len(evCall.invoked)
        /\ pub.stats.events_failed >= evCall.failedBefore
              + Cardinality({i \in 1 .. Len(evCall.invoked) : evCall.invoked[i] # "good"})

\* C26: subscribers_count is the number of distinct registered subscribers.
\* Violated: one subscriber on two event types is counted twice.
C26_SubscribersCountDistinct ==
    pub.stats.subscribers_count
        = Cardinality({sb \in EvSubscribers :
                          \/ InSeq(sb, pub.global_subscribers)
                          \/ \E t \in EventTypes : InSeq(sb, pub.subscribers[t])})

\* C35: publish of an event that is no SYSTEM_ERROR publishes, besides the event,
\* exactly one SYSTEM_ERROR event for each of its handlers that raises; publish of
\* a SYSTEM_ERROR event publishes that event alone.
\* Violated: a raising callable without __name__ gets no SYSTEM_ERROR event.
C35_OneErrorEventPerFailure ==
    (evCall.op = "publish" /\ ~pub.shutdown) =>
        LET hs == HandlersOf(RelevantSubscribers(pub, evCall.type), evCall.type)
            raising == {i \in 1 .. Len(hs) : hs[i] # "good"}
        IN  pub.stats.events_published
                = 1 + (IF evCall.type = "SYSTEM_ERROR" THEN 0 ELSE Cardinality(raising))

\* C40: publish of an event invokes each handler an active subscriber
\* registered with the publisher has for the event's type exactly once, and no
\* handler of a deactivated subscriber (stated for publications none of whose
\* handlers publishes a further event).
\* Violated: a subscriber registered for the type and globally is in both lists
\* and each of its handlers is invoked twice.
C40_EachHandlerOnce ==
    (/\ evCall.op = "publish"
     /\ ~pub.shutdown
     /\ \A i \in 1 .. Len(evCall.invoked) : evCall.invoked[i] # "failing")
        => LET t == evCall.type
               Due(sb) == IF /\ active[sb]
                             /\ \/ InSeq(sb, pub.subscribers[t])
                                \/ InSeq(sb, pub.global_subscribers)
                             THEN Len(subs[sb][t]) ELSE 0
           IN  Len(evCall.invoked) = Due("s1") + Due("s2")

(***************************************************************************)
(* Properties of FairSEM                                                   *)
(***************************************************************************)
\* C39: every publish call that has started returns.
\* Violated: with one permit, the publish of the SYSTEM_ERROR event waits for
\* the permit the outer publish gives back only after its handler has ended.
C39_PublishReturns ==
    \A c \in Calls : (task[c] # "idle") ~> (task[c] = "returned")

(***************************************************************************)
(* Properties of SpecBP                                                    *)
(***************************************************************************)

\* C6: for a payload with a front-matter header, a load() that follows save()
\* with no write in between succeeds and returns a document whose body is the
\* body save() hashed and whose sha1_hash is the SHA-1 of the body as load()
\* computes it.
C6_RoundTrip ==
    (/\ bpSaved = "written"
     /\ ~bpTampered
     /\ HasFrontMatter(bpInput)
     /\ bpResult # NoResult)
        => /\ bpResult.kind = "ok"
           /\ bpResult.content = SavedBody(bpInput)
           /\ bpResult.sha1_hash = HashLine(ValidatedBody(bpFile))

\* C7: once save() has written a file whose header carries a non-empty
\* sha1_hash, a load() that follows any change of the body bytes raises
\* FileIntegrityError.
C7_TamperDetected ==
    (/\ bpSaved = "written"
     /\ bpTampered
     /\ bpResult # NoResult)
        => bpResult.kind = "FileIntegrityError"

\* C8: load() raises FileIntegrityError only for a file whose header carries a
\* non-empty sha1_hash that differs from the recomputed one; a file with no
\* hash key, with an empty hash or with no front-matter header loads without it.
C8_IntegrityErrorOnlyOnMismatch ==
    bpResult.kind = "FileIntegrityError"
        => /\ StartsWithDash(bpFile)
           /\ Truthy(GetKey(YamlLoad(ValidatedHeader(bpFile)).entries, "sha1_hash"))
           /\ GetKey(YamlLoad(ValidatedHeader(bpFile)).entries, "sha1_hash")
                  # HashLine(ValidatedBody(bpFile))

\* C31: load() of a blueprint file with a closed front matter that YAML cannot
\* parse returns the body with an empty header mapping.
\* Violated: _validate_blueprint_sha parses the header first, unguarded, and
\* load() raises the YAMLError.
C31_UnparsableHeaderTolerated ==
    (/\ bpResult # NoResult
     /\ StartsWithDash(bpFile)
     /\ FindDash(bpFile) # 0
     /\ YamlLoad(SubSeq(bpFile, 2, FindDash(bpFile) - 1)).kind = "error")
        => /\ bpResult.kind = "ok"
           /\ bpResult.header = <<>>
           /\ bpResult.content = Strip(SubSeq(bpFile, FindDash(bpFile) + 1, Len(bpFile)))

====
